---------------------------- MODULE Spec2Model ----------------------------
(***************************************************************************)
(* A model of the LDT1 file transfer programs: the server                  *)
(* (src/Server/server.py) and the framing code of its two clients          *)
(* (src/Client/Client.py, the GUI client, and src/Client/CLI-Client.py,    *)
(* the command line client).                                               *)
(*                                                                         *)
(* Text and bytes are sequences of integers: a byte is 0..255, a character *)
(* is its code point, so that encoding and decoding are computed and not   *)
(* assumed.  Paths are POSIX paths (posixpath), the platform on which      *)
(* os.path.abspath("D:/") is an ordinary directory below the working       *)
(* directory.                                                              *)
(***************************************************************************)
EXTENDS Integers, Sequences, FiniteSets, TLC

VARIABLES
    \* the framing codec under test (recv_packet of one of the programs)
    impl,       \* which program's recv_packet is exercised: "server", "gui", "cli"
    sock,       \* the receiving socket: [data: bytes not yet read, closed: peer closed]
    sent,       \* what the peer packed onto the socket: [kind, t, payload, tail]
    res,        \* the outcome of the last recv_packet
    errs,       \* every (cause, outcome) pair of a failed recv_packet so far
    \* the path sandbox and the directory lister
    root,       \* ROOT, the served directory (an absolute path)
    fs,         \* the filesystem: absolute component sequence -> node
    arg,        \* the relative path handed to safe_path / list_dir
    ret,        \* what the call returned or raised
    \* the server's connections
    inb,        \* per connection: bytes sent by the client, not yet read
    peerClosed, \* per connection: the client has closed its side
    out,        \* per connection: the byte strings given to sock.sendall, in order
    pc,         \* per connection: "recv", "stream" or "closed"
    cur,        \* per connection: the locals of the GET being streamed
    req,        \* per connection: a record of the last request handled
    nreq,       \* per connection: the number of requests the client has sent
    accessed,   \* real locations the server has stat'ed, listed or opened
    \* the download manager of a client (the program named by impl)
    downloads,  \* self.downloads: file name -> task
    lock,       \* self.lock: the set of threads holding it (none or one)
    wk,         \* per download thread: its position and locals
    net,        \* per download thread: its current connection, seen from the client
    mainpc,     \* the main thread: idle, in enqueue or in the progress routine
    progress,   \* what the progress routine in course is about to return
    unlocked    \* accesses to a task's fields made without holding the lock

codecVars == <<impl, sock, sent, res, errs>>
pathVars == <<arg, ret>>
fsVars == <<root, fs>>
srvVars == <<inb, peerClosed, out, pc, cur, req, nreq, accessed>>
dlVars == <<downloads, lock, wk, net, mainpc, progress, unlocked>>
vars == <<impl, sock, sent, res, errs, root, fs, arg, ret,
          inb, peerClosed, out, pc, cur, req, nreq, accessed,
          downloads, lock, wk, net, mainpc, progress, unlocked>>

(***************************************************************************)
(* Bounds of the model.                                                    *)
(***************************************************************************)
\* the longest payload the codec is exercised with
MaxPayload == 2
\* the most path segments of an input to safe_path / list_dir
MaxSegs == 4
\* the largest size of the served file, in bytes
MaxFileSize == 5
\* CHUNK_SIZE of src/Server/server.py:19 is 1024 * 1024; the model streams
\* files of a few bytes, and scales the chunk size with them so that a
\* transfer takes several chunks.
CHUNK_SIZE == 2
\* the most requests the clients send, over all connections
MaxReqs == 2
\* the most downloads enqueued
MaxTasks == 2
\* the most packets a peer sends on one connection of a download thread
MaxPeerMsgs == 3

(***************************************************************************)
(* Text.                                                                   *)
(***************************************************************************)
\* the printable ASCII characters, in code point order from 32 (the backtick,
\* which no literal of the programs holds, is written out)
Printable ==
    <<" ", "!", "\"", "#", "$", "%", "&", "'", "(", ")", "*", "+", ",", "-",
      ".", "/", "0", "1", "2", "3", "4", "5", "6", "7", "8", "9", ":", ";",
      "<", "=", ">", "?", "@", "A", "B", "C", "D", "E", "F", "G", "H", "I",
      "J", "K", "L", "M", "N", "O", "P", "Q", "R", "S", "T", "U", "V", "W",
      "X", "Y", "Z", "[", "\\", "]", "^", "_", "(backtick)", "a", "b", "c", "d", "e",
      "f", "g", "h", "i", "j", "k", "l", "m", "n", "o", "p", "q", "r", "s",
      "t", "u", "v", "w", "x", "y", "z", "{", "|", "}", "~">>

\* ord(c) of a printable character
Ord == [c \in {Printable[i] : i \in 1..Len(Printable)} |->
          31 + (CHOOSE i \in 1..Len(Printable) : Printable[i] = c)]

\* a string literal, written as its characters: its code points, which are
\* also its UTF-8 bytes (every literal of the programs is ASCII)
Str(s) == [i \in 1..Len(s) |-> Ord[s[i]]]

Drop(s, n) == SubSeq(s, n + 1, Len(s))

StartsWith(s, p) == Len(s) >= Len(p) /\ SubSeq(s, 1, Len(p)) = p

Max(a, b) == IF a >= b THEN a ELSE b

Min(a, b) == IF a <= b THEN a ELSE b

RECURSIVE Concat(_)
\* b"".join(ss)
Concat(ss) == IF ss = <<>> THEN <<>> ELSE Head(ss) \o Concat(Tail(ss))

RECURSIVE JoinWith(_, _)
\* sep.join(ss)
JoinWith(sep, ss) ==
    IF ss = <<>> THEN <<>>
    ELSE IF Len(ss) = 1 THEN ss[1]
    ELSE ss[1] \o sep \o JoinWith(sep, Tail(ss))

RECURSIVE Split(_, _)
\* s.split(c) for a one-character separator: never an empty list
Split(s, c) ==
    IF \A i \in 1..Len(s) : s[i] # c THEN <<s>>
    ELSE LET k == CHOOSE i \in 1..Len(s) :
                      s[i] = c /\ \A j \in 1..(i - 1) : s[j] # c
         IN  <<SubSeq(s, 1, k - 1)>> \o Split(Drop(s, k), c)

RECURSIVE Digits(_)
Digits(n) == IF n < 10 THEN <<48 + n>> ELSE Digits(n \div 10) \o <<48 + (n % 10)>>

\* str(n) of an int
IntToStr(n) == IF n < 0 THEN <<45>> \o Digits(-n) ELSE Digits(n)

IsDigit(c) == c >= 48 /\ c <= 57

RECURSIVE DigitsValue(_)
DigitsValue(s) ==
    IF s = <<>> THEN 0 ELSE 10 * DigitsValue(SubSeq(s, 1, Len(s) - 1)) + (s[Len(s)] - 48)

RECURSIVE LStrip(_, _)
\* s.lstrip(chars)
LStrip(s, chars) ==
    IF s # <<>> /\ Head(s) \in chars THEN LStrip(Tail(s), chars) ELSE s

RECURSIVE RStrip(_, _)
RStrip(s, chars) ==
    IF s # <<>> /\ s[Len(s)] \in chars
    THEN RStrip(SubSeq(s, 1, Len(s) - 1), chars) ELSE s

\* the ASCII whitespace int() strips: space, \t, \n, \v, \f, \r
Whitespace == {32, 9, 10, 11, 12, 13}

\* int(s): [ok, val]; ok is FALSE where Python raises ValueError.  An optional
\* sign, then decimal digits, with surrounding whitespace ignored (digit
\* separators "_" are not modelled: no modelled request holds one).
ParseInt(s) ==
    LET t == RStrip(LStrip(s, Whitespace), Whitespace)
        signed == t # <<>> /\ t[1] \in {43, 45}
        d == IF signed THEN Tail(t) ELSE t
    IN  IF d = <<>> \/ \E i \in 1..Len(d) : ~IsDigit(d[i])
        THEN [ok |-> FALSE, val |-> 0]
        ELSE [ok |-> TRUE,
              val |-> IF signed /\ t[1] = 45 THEN -DigitsValue(d) ELSE DigitsValue(d)]

\* bytes.decode("utf-8") of b, strict: [ok, text].  The bytes of the model
\* are ASCII or 0xFF, and 0xFF starts no UTF-8 sequence, so a byte >= 128
\* is an invalid byte.
DecodeStrict(b) ==
    IF \A i \in 1..Len(b) : b[i] < 128
    THEN [ok |-> TRUE, text |-> b] ELSE [ok |-> FALSE, text |-> <<>>]

\* bytes.decode("utf-8", errors="ignore"): invalid bytes are dropped
DecodeIgnore(b) == SelectSeq(b, LAMBDA x : x < 128)

\* bytes.decode("utf-8", errors="replace"): invalid bytes become U+FFFD
DecodeReplace(b) == [i \in 1..Len(b) |-> IF b[i] < 128 THEN b[i] ELSE 65533]

(***************************************************************************)
(* Framing: pack, recv_exact, recv_packet.                                 *)
(***************************************************************************)
MAGIC == Str(<<"L", "D", "T", "1">>)

TYPE_LIST == 1

TYPE_LIST_RESP == 2

\* a variant of TYPE_GET: the dispatcher takes 0x04 for a GET
TYPE_GET_as_meta == 4

TYPE_GET == 3

TYPE_META == 4

TYPE_CHUNK == 5

TYPE_ERR == 7

\* a variant of U32BE: the length written least significant byte first
U32LittleEndian(n) ==
    <<n % 256, (n \div 256) % 256, (n \div 65536) % 256, (n \div 16777216) % 256>>

\* struct.pack(">I", n)
U32BE(n) == <<(n \div 16777216) % 256, (n \div 65536) % 256, (n \div 256) % 256, n % 256>>

\* struct.unpack(">I", b): the length fields of the model stay below 2^31
U32Value(b) == ((b[1] * 256 + b[2]) * 256 + b[3]) * 256 + b[4]

\* Magic(4) + Type(1) + Length(4) + Payload(N)
pack(msg_type, payload) == MAGIC \o <<msg_type>> \o U32BE(Len(payload)) \o payload

\* What a call returns or raises.  st is "ok", "raise" or "block" (the call
\* never returns: a blocking read on a silent, open connection).  exc is the
\* exception class, text its message as a list of literal parts, data the
\* text decoded from a payload that ends the message.  cause is why the read
\* failed, as the socket saw it: "closed", "timeout", "magic", "remote".
Returned(buf, rest) ==
    [st |-> "ok", buf |-> buf, rest |-> rest, exc |-> "", text |-> <<>>,
     data |-> <<>>, cause |-> ""]

Raised(exc, text, data, cause) ==
    [st |-> "raise", buf |-> <<>>, rest |-> <<>>, exc |-> exc, text |-> text,
     data |-> data, cause |-> cause]

Blocked == [st |-> "block", buf |-> <<>>, rest |-> <<>>, exc |-> "", text |-> <<>>,
            data |-> <<>>, cause |-> ""]

\* a variant of recv_exact_server: the peer's close is reported by an
\* exception that is no ConnectionError
recv_exact_server_eof(s, n) ==
    IF Len(s.data) >= n THEN Returned(SubSeq(s.data, 1, n), Drop(s.data, n))
    ELSE IF s.closed
    THEN Raised("EOFError", <<"Connection closed by peer">>, <<>>, "closed")
    ELSE Blocked

\* recv_exact of the server: no timeout is ever set on the accepted socket.
\* ConnectionError is an OSError (socket.error), so the "closed by peer"
\* error raised inside the try is caught and raised again with a prefix.
recv_exact_server(s, n) ==
    IF Len(s.data) >= n THEN Returned(SubSeq(s.data, 1, n), Drop(s.data, n))
    ELSE IF s.closed
    THEN Raised("ConnectionError", <<"Socket error: ", "Connection closed by peer">>,
                <<>>, "closed")
    ELSE Blocked

\* recv_exact of the GUI client: the bare except also catches the
\* ConnectionError("Closed") raised inside the try.
recv_exact_gui(s, n) ==
    IF Len(s.data) >= n THEN Returned(SubSeq(s.data, 1, n), Drop(s.data, n))
    ELSE IF s.closed
    THEN Raised("ConnectionError", <<"Timeout/Error">>, <<>>, "closed")
    ELSE Raised("ConnectionError", <<"Timeout/Error">>, <<>>, "timeout")

\* recv_exact of the command line client
recv_exact_cli(s, n) ==
    IF Len(s.data) >= n THEN Returned(SubSeq(s.data, 1, n), Drop(s.data, n))
    ELSE IF s.closed
    THEN Raised("ConnectionError", <<"Receive error: ", "Connection closed">>,
                <<>>, "closed")
    ELSE Raised("ConnectionError", <<"Timeout">>, <<>>, "timeout")

\* a returned packet
Packet(t, payload, rest) ==
    [st |-> "ok", t |-> t, payload |-> payload, rest |-> rest, exc |-> "",
     text |-> <<>>, data |-> <<>>, cause |-> ""]

\* a failed recv_packet
Failed(exc, text, data, cause) ==
    [st |-> "raise", t |-> 0, payload |-> <<>>, rest |-> <<>>, exc |-> exc,
     text |-> text, data |-> data, cause |-> cause]

Waiting == [st |-> "block", t |-> 0, payload |-> <<>>, rest |-> <<>>, exc |-> "",
            text |-> <<>>, data |-> <<>>, cause |-> ""]

\* an error of recv_exact leaving recv_packet of the server unchanged
Propagate(r) ==
    IF r.st = "block" THEN Waiting ELSE Failed(r.exc, r.text, r.data, r.cause)

\* recv_packet of the server
recv_packet_server(s) ==
    LET magic == recv_exact_server(s, 4) IN
    IF magic.st # "ok" THEN Propagate(magic)
    ELSE IF magic.buf # MAGIC
    THEN Failed("ValueError", <<"Invalid protocol magic: ">>, magic.buf, "magic")
    ELSE
    LET header == recv_exact_server([s EXCEPT !.data = magic.rest], 5) IN
    IF header.st # "ok" THEN Propagate(header)
    ELSE
    LET t == header.buf[1]
        ln == U32Value(Tail(header.buf))
        payload == recv_exact_server([s EXCEPT !.data = header.rest], ln)
    IN  IF payload.st # "ok" THEN Propagate(payload)
        ELSE Packet(t, payload.buf, payload.rest)

\* except Exception as e: raise ConnectionError(str(e))
WrapGui(r) == Failed("ConnectionError", r.text, r.data, r.cause)

\* recv_packet of the GUI client
recv_packet_gui(s) ==
    LET magic == recv_exact_gui(s, 4) IN
    IF magic.st # "ok" THEN WrapGui(magic)
    ELSE IF magic.buf # MAGIC
    THEN WrapGui(Raised("ValueError", <<"Bad Magic">>, <<>>, "magic"))
    ELSE
    LET header == recv_exact_gui([s EXCEPT !.data = magic.rest], 5) IN
    IF header.st # "ok" THEN WrapGui(header)
    ELSE
    LET t == header.buf[1]
        ln == U32Value(Tail(header.buf))
        payload == recv_exact_gui([s EXCEPT !.data = header.rest], ln)
    IN  IF payload.st # "ok" THEN WrapGui(payload)
        ELSE IF t = TYPE_ERR
        THEN LET d == DecodeStrict(payload.buf) IN
             IF d.ok THEN WrapGui(Raised("Exception", <<>>, d.text, "remote"))
             ELSE WrapGui(Raised("UnicodeDecodeError",
                                 <<"'utf-8' codec can't decode byte">>, <<>>, "remote"))
        ELSE Packet(t, payload.buf, payload.rest)

\* except Exception as e: raise ConnectionError(f"Packet error: {e}")
WrapCli(r) ==
    LET text == <<"Packet error: ">> \o r.text
    IN  Failed("ConnectionError", text, r.data, r.cause)

\* recv_packet of the command line client
recv_packet_cli(s) ==
    LET magic == recv_exact_cli(s, 4) IN
    IF magic.st # "ok" THEN WrapCli(magic)
    ELSE IF magic.buf # MAGIC
    THEN WrapCli(Raised("ValueError", <<"Bad magic">>, <<>>, "magic"))
    ELSE
    LET header == recv_exact_cli([s EXCEPT !.data = magic.rest], 5) IN
    IF header.st # "ok" THEN WrapCli(header)
    ELSE
    LET t == header.buf[1]
        ln == U32Value(Tail(header.buf))
        payload == recv_exact_cli([s EXCEPT !.data = header.rest], ln)
    IN  IF payload.st # "ok" THEN WrapCli(payload)
        ELSE IF t = TYPE_ERR
        THEN WrapCli(Raised("Exception", <<>>, DecodeIgnore(payload.buf), "remote"))
        ELSE Packet(t, payload.buf, payload.rest)

recv_packet(which, s) ==
    CASE which = "server" -> recv_packet_server(s)
      [] which = "gui" -> recv_packet_gui(s)
      [] which = "cli" -> recv_packet_cli(s)


(***************************************************************************)
(* The codec exercised: a peer writes bytes to a socket, and recv_packet   *)
(* of one of the three programs reads them.                                *)
(***************************************************************************)
Impls == {"server", "gui", "cli"}

\* the bytes payloads are made of: "A" and 0xFF (no valid UTF-8)
PayloadBytes == {65, 255}

RECURSIVE SeqsUpTo(_, _)
\* the sequences over S of length at most n
SeqsUpTo(S, n) ==
    IF n = 0 THEN {<<>>}
    ELSE LET shorter == SeqsUpTo(S, n - 1)
         IN  shorter \cup {Append(q, x) : q \in shorter, x \in S}

Payloads == SeqsUpTo(PayloadBytes, MaxPayload)

Types == 0..255

\* what follows a packet on the stream: nothing, the next packet, or the
\* first byte of the next packet
Tails == {<<>>, pack(TYPE_CHUNK, <<65>>), <<76>>}

NoResult == [st |-> "none", t |-> 0, payload |-> <<>>, rest |-> <<>>, exc |-> "",
             text |-> <<>>, data |-> <<>>, cause |-> ""]

NothingSent == [kind |-> "none", t |-> 0, payload |-> <<>>, tail |-> <<>>]

InitCodec ==
    /\ impl \in Impls
    /\ sock = [data |-> <<>>, closed |-> FALSE]
    /\ sent = NothingSent
    /\ res = NoResult
    /\ errs = {}

IdleCodec ==
    /\ impl = "server"
    /\ sock = [data |-> <<>>, closed |-> FALSE]
    /\ sent = NothingSent
    /\ res = NoResult
    /\ errs = {}

\* the peer sends pack(t, p), followed by tail
PeerSend(t, p, tail) ==
    /\ sent.kind = "none"
    /\ sock' = [sock EXCEPT !.data = pack(t, p) \o tail]
    /\ sent' = [kind |-> "packet", t |-> t, payload |-> p, tail |-> tail]
    /\ UNCHANGED <<impl, res, errs, fsVars, pathVars, srvVars, dlVars>>

\* the peer sends only the first k bytes of a packet
PeerSendCut(k) ==
    /\ sent.kind = "none"
    /\ sock' = [sock EXCEPT !.data = SubSeq(pack(TYPE_META, <<65>>), 1, k)]
    /\ sent' = [kind |-> "cut", t |-> TYPE_META, payload |-> <<65>>, tail |-> <<>>]
    /\ UNCHANGED <<impl, res, errs, fsVars, pathVars, srvVars, dlVars>>

\* the peer sends a packet under another magic value
PeerSendBadMagic ==
    /\ sent.kind = "none"
    /\ sock' = [sock EXCEPT !.data =
                    Str(<<"L", "D", "T", "2">>) \o Drop(pack(TYPE_META, <<65>>), 4)]
    /\ sent' = [kind |-> "badmagic", t |-> TYPE_META, payload |-> <<65>>, tail |-> <<>>]
    /\ UNCHANGED <<impl, res, errs, fsVars, pathVars, srvVars, dlVars>>

\* the peer closes the connection after what it has sent
PeerClose ==
    /\ sent.kind = "cut"
    /\ res.st = "none"
    /\ ~sock.closed
    /\ sock' = [sock EXCEPT !.closed = TRUE]
    /\ UNCHANGED <<impl, sent, res, errs, fsVars, pathVars, srvVars, dlVars>>

\* the three causes of a failed read that the socket itself shows
ReadCauses == {"closed", "timeout", "magic"}

\* the program calls recv_packet(sock)
Recv ==
    /\ sent.kind # "none"
    /\ res.st = "none"
    /\ LET r == recv_packet(impl, sock) IN
        /\ r.st # "block"
        /\ res' = r
        /\ sock' = [sock EXCEPT !.data = r.rest]
        /\ errs' = IF r.st = "raise" /\ r.cause \in ReadCauses
                   THEN errs \cup {[cause |-> r.cause, exc |-> r.exc,
                                    text |-> r.text, data |-> r.data]}
                   ELSE errs
    /\ UNCHANGED <<impl, sent, fsVars, pathVars, srvVars, dlVars>>

\* the program drops the socket and reads from a new connection
NewSocket ==
    /\ res.st # "none"
    /\ sock' = [data |-> <<>>, closed |-> FALSE]
    /\ sent' = NothingSent
    /\ res' = NoResult
    /\ UNCHANGED <<impl, errs, fsVars, pathVars, srvVars, dlVars>>

(***************************************************************************)
(* Paths (posixpath) and the filesystem.                                   *)
(***************************************************************************)
sep == Str(<<"/">>)

\* os.getcwd(): only a relative path handed to abspath reads it
getcwd == sep

\* os.path.join(a, b)
join(a, b) ==
    IF StartsWith(b, sep) THEN b
    ELSE IF a = <<>> \/ a[Len(a)] = sep[1] THEN a \o b
    ELSE a \o sep \o b

RECURSIVE NormComps(_, _, _)
\* the loop of posixpath.normpath over the components still to read
NormComps(comps, new_comps, initial_slashes) ==
    IF comps = <<>> THEN new_comps
    ELSE LET comp == Head(comps)
             dotdot == Str(<<".", ".">>)
         IN  IF comp = <<>> \/ comp = Str(<<".">>)
             THEN NormComps(Tail(comps), new_comps, initial_slashes)
             ELSE IF \/ comp # dotdot
                     \/ (initial_slashes = 0 /\ new_comps = <<>>)
                     \/ (new_comps # <<>> /\ new_comps[Len(new_comps)] = dotdot)
             THEN NormComps(Tail(comps), Append(new_comps, comp), initial_slashes)
             ELSE IF new_comps # <<>>
             THEN NormComps(Tail(comps), SubSeq(new_comps, 1, Len(new_comps) - 1),
                            initial_slashes)
             ELSE NormComps(Tail(comps), new_comps, initial_slashes)

\* posixpath.normpath(path)
normpath(path) ==
    IF path = <<>> THEN Str(<<".">>)
    ELSE LET initial_slashes ==
                 IF StartsWith(path, sep \o sep) /\ ~StartsWith(path, sep \o sep \o sep)
                 THEN 2
                 ELSE IF StartsWith(path, sep) THEN 1 ELSE 0
             new_comps == NormComps(Split(path, sep[1]), <<>>, initial_slashes)
             joined == JoinWith(sep, new_comps)
             full == IF initial_slashes = 2 THEN sep \o sep \o joined
                     ELSE IF initial_slashes = 1 THEN sep \o joined
                     ELSE joined
         IN  IF full = <<>> THEN Str(<<".">>) ELSE full

\* os.path.abspath(path)
abspath(path) ==
    IF StartsWith(path, sep) THEN normpath(path) ELSE normpath(join(getcwd, path))

\* the names of a path the kernel walks: its non-empty components
Components(path) == SelectSeq(Split(path, sep[1]), LAMBDA c : c # <<>>)

\* a filesystem node.  kind is "dir", "file" or "link"; names are a
\* directory's entries in the order listdir gives them.
Dir(names, mtime) ==
    [kind |-> "dir", data |-> <<>>, target |-> <<>>, names |-> names, mtime |-> mtime]

File(data, mtime) ==
    [kind |-> "file", data |-> data, target |-> <<>>, names |-> <<>>, mtime |-> mtime]

Link(target) ==
    [kind |-> "link", data |-> <<>>, target |-> target, names |-> <<>>, mtime |-> 0]

RECURSIVE Walk(_, _, _)
\* the kernel's path walk, following symbolic links: the real location of
\* the entry, or <<>> when there is none (a link's target is an absolute
\* path that holds no further link)
Walk(f, at, comps) ==
    IF comps = <<>> THEN at
    ELSE IF f[at].kind # "dir" THEN <<>>
    ELSE LET next == join(at, Head(comps)) IN
         IF next \notin DOMAIN f THEN <<>>
         ELSE IF f[next].kind = "link"
         THEN IF f[next].target \in DOMAIN f
              THEN Walk(f, f[next].target, Tail(comps)) ELSE <<>>
         ELSE Walk(f, next, Tail(comps))

\* the real location of the entry an absolute path names, <<>> if none
RealPath(path) == Walk(fs, sep, Components(path))

\* os.path.isdir, os.path.isfile, os.stat, os.path.getsize, os.listdir:
\* all follow symbolic links
isdir(path) == RealPath(path) # <<>> /\ fs[RealPath(path)].kind = "dir"

\* a variant of isfile: any existing entry passes (os.path.exists)
exists(path) == RealPath(path) # <<>>

isfile(path) == RealPath(path) # <<>> /\ fs[RealPath(path)].kind = "file"

stat_ok(path) == RealPath(path) # <<>>

getsize(path) == Len(fs[RealPath(path)].data)

getmtime(path) == fs[RealPath(path)].mtime

listdir(path) == fs[RealPath(path)].names

\* the bytes of the served file: its first n bytes
FileBytes(n) == [i \in 1..n |-> 100 + i]

RootR == Str(<<"/", "r">>)

\* a tree without symbolic links.  /r holds the file a and the empty
\* directory d; beside it are the file /rs and the directory /s with the
\* file k.
FsPlain(n) ==
    (sep :> Dir(<<Str(<<"r">>), Str(<<"r", "s">>), Str(<<"s">>)>>, 1))
    @@ (RootR :> Dir(<<Str(<<"a">>), Str(<<"d">>)>>, 2))
    @@ (Str(<<"/", "r", "/", "a">>) :> File(FileBytes(n), 3))
    @@ (Str(<<"/", "r", "/", "d">>) :> Dir(<<>>, 4))
    @@ (Str(<<"/", "r", "s">>) :> File(<<82>>, 5))
    @@ (Str(<<"/", "s">>) :> Dir(<<Str(<<"k">>)>>, 6))
    @@ (Str(<<"/", "s", "/", "k">>) :> File(<<83, 83>>, 7))

\* the same tree with three symbolic links in /r: l to the directory /s,
\* m to the file /s/k, and x to nothing
FsLinks(n) ==
    (RootR :> Dir(<<Str(<<"a">>), Str(<<"d">>), Str(<<"l">>), Str(<<"m">>),
                    Str(<<"x">>)>>, 2))
    @@ (Str(<<"/", "r", "/", "l">>) :> Link(Str(<<"/", "s">>)))
    @@ (Str(<<"/", "r", "/", "m">>) :> Link(Str(<<"/", "s", "/", "k">>)))
    @@ (Str(<<"/", "r", "/", "x">>) :> Link(Str(<<"/", "g", "o", "n", "e">>)))
    @@ FsPlain(n)

(***************************************************************************)
(* The path sandbox and the directory lister of the server.                *)
(***************************************************************************)
\* what safe_path returns or raises
PathOk(path) == [st |-> "ok", path |-> path, exc |-> "", text |-> <<>>]

PathRaise(exc, text) == [st |-> "raise", path |-> <<>>, exc |-> exc, text |-> text]

SecurityMessage ==
    Str(<<"S", "e", "c", "u", "r", "i", "t", "y", ":", " ", "P", "a", "t", "h", " ",
          "t", "r", "a", "v", "e", "r", "s", "a", "l", " ", "a", "t", "t", "e", "m",
          "p", "t", " ", "b", "l", "o", "c", "k", "e", "d">>)

\* a variant of safe_path: the prefix tested is ROOT without the trailing
\* separator
safe_path_bare_prefix(rel_path) ==
    LET stripped == LStrip(rel_path, {Ord["\\"], Ord["/"], Ord[" "]})
        full == abspath(join(root, stripped))
    IN  IF ~StartsWith(full, root)
        THEN PathRaise("ValueError", SecurityMessage)
        ELSE PathOk(full)

\* safe_path(rel_path), with ROOT the variable root
safe_path(rel_path) ==
    LET stripped == LStrip(rel_path, {Ord["\\"], Ord["/"], Ord[" "]})
        full == abspath(join(root, stripped))
        root_prefix == join(root, <<>>)
    IN  IF ~StartsWith(full, root_prefix)
        THEN PathRaise("ValueError", SecurityMessage)
        ELSE PathOk(full)

RECURSIVE ListEntries(_, _)
\* the loop of list_dir over the names of the directory full
ListEntries(full, names) ==
    IF names = <<>> THEN <<>>
    ELSE LET name == Head(names)
             p == join(full, name)
         IN  IF stat_ok(p)
             THEN <<[name |-> name, dir |-> isdir(p),
                     size |-> IF isdir(p) THEN 0 ELSE getsize(p),
                     mtime |-> getmtime(p)]>> \o ListEntries(full, Tail(names))
             ELSE ListEntries(full, Tail(names))

\* a variant of list_dir: the path is joined to ROOT without the check of
\* safe_path
list_dir_unchecked(rel_path) ==
    LET stripped == LStrip(rel_path, {Ord["\\"], Ord["/"], Ord[" "]})
        full == abspath(join(root, stripped))
    IN  IF ~isdir(full) THEN <<>>
        ELSE ListEntries(full, listdir(full))

\* list_dir(rel_path): the list of entries, empty on any error
list_dir(rel_path) ==
    LET r == safe_path(rel_path) IN
    IF r.st # "ok" THEN <<>>
    ELSE IF ~isdir(r.path) THEN <<>>
    ELSE ListEntries(r.path, listdir(r.path))

\* the real locations list_dir(rel_path) stats or lists
list_dir_touched(rel_path) ==
    LET r == safe_path(rel_path) IN
    IF r.st # "ok" THEN {}
    ELSE IF ~isdir(r.path) THEN {RealPath(r.path)} \ {<<>>}
    ELSE ({RealPath(r.path)}
          \cup {RealPath(join(r.path, listdir(r.path)[i])) :
                    i \in 1..Len(listdir(r.path))}) \ {<<>>}

(***************************************************************************)
(* The sandbox and the lister exercised on their own: a root, a tree and   *)
(* a client-supplied path are drawn, and safe_path or list_dir is called.  *)
(***************************************************************************)
Roots == {sep, RootR}

\* what a client may put before the path: nothing, or characters that
\* safe_path strips
Prefixes ==
    {<<>>, Str(<<"/">>), Str(<<"\\">>), Str(<<" ", "/">>), Str(<<"/", "/">>)}

SegNames == {Str(<<"a">>), Str(<<".", ".">>), Str(<<".">>), Str(<<"r", "s">>), <<>>}

InputPaths ==
    {pre \o JoinWith(sep, segs) : pre \in Prefixes, segs \in SeqsUpTo(SegNames, MaxSegs)}

NoCall == [op |-> "none", st |-> "", path |-> <<>>, exc |-> "", text |-> <<>>,
           items |-> <<>>]

InitPath ==
    /\ root \in Roots
    /\ fs \in {FsPlain(3), FsLinks(3)}
    /\ arg \in InputPaths
    /\ ret = NoCall

IdlePath ==
    /\ arg = <<>>
    /\ ret = NoCall

\* the server calls safe_path(arg)
CallSafePath ==
    /\ ret.op = "none"
    /\ LET r == safe_path(arg) IN
           ret' = [op |-> "safe_path", st |-> r.st, path |-> r.path, exc |-> r.exc,
                   text |-> r.text, items |-> <<>>]
    /\ UNCHANGED <<root, fs, arg, codecVars, srvVars, dlVars>>

\* the server calls list_dir(arg)
CallListDir ==
    /\ ret.op = "none"
    /\ ret' = [op |-> "list_dir", st |-> "ok", path |-> <<>>, exc |-> "",
               text |-> <<>>, items |-> list_dir(arg)]
    /\ UNCHANGED <<root, fs, arg, codecVars, srvVars, dlVars>>

(***************************************************************************)
(* The server's connections.                                               *)
(***************************************************************************)
Conns == {1, 2}

\* the open file of a GET (its real location), the offset of the next read
\* and the bytes of the range still to send
NoGet == [file |-> <<>>, pos |-> 0, remaining |-> 0]

\* kind: "list", "get", "other" (a type the loop ignores), "error" (an
\* exception answered with ERR), "ioerror" (sendall raised), "eof" (the peer
\* closed); t the packet's type, -1 if no packet was decoded; text the
\* decoded payload; path the path of a LIST, or the file of a GET; partial
\* the bytes read when no packet could be decoded
NoRequest ==
    [kind |-> "none", t |-> -1, text |-> <<>>, path |-> <<>>, start |-> 0, end |-> 0, file_size |-> 0,
     eff_start |-> 0, eff_end |-> 0, data |-> <<>>, first |-> 0, changed |-> FALSE,
     partial |-> <<>>]

InitServer ==
    /\ inb = [c \in Conns |-> <<>>]
    /\ peerClosed = [c \in Conns |-> FALSE]
    /\ out = [c \in Conns |-> <<>>]
    /\ pc = [c \in Conns |-> "recv"]
    /\ cur = [c \in Conns |-> NoGet]
    /\ req = [c \in Conns |-> NoRequest]
    /\ nreq = [c \in Conns |-> 0]
    /\ accessed = {}

\* str.encode("utf-8"): the texts of the model are ASCII, or hold U+FFFD
\* where decoding replaced an invalid byte
RECURSIVE EncodeUtf8(_)
EncodeUtf8(text) ==
    IF text = <<>> THEN <<>>
    ELSE (IF Head(text) < 128 THEN <<Head(text)>> ELSE <<239, 191, 189>>)
         \o EncodeUtf8(Tail(text))

\* repr() of a bytes or str value whose characters are printable ASCII
\* without quotes or backslashes
ReprBytes(b) == Str(<<"b", "'">>) \o b \o Str(<<"'">>)

ReprStr(t) == Str(<<"'">>) \o t \o Str(<<"'">>)

BadMagicMessage == Str(<<"I", "n", "v", "a", "l", "i", "d", " ", "p", "r", "o", "t", "o", "c", "o", "l", " ", "m", "a", "g", "i", "c", ":", " ">>)

BadFormatMessage == Str(<<"I", "n", "v", "a", "l", "i", "d", " ", "G", "E", "T", " ", "r", "e", "q", "u", "e", "s", "t", " ", "f", "o", "r", "m", "a", "t">>)

NotFoundMessage == Str(<<"F", "i", "l", "e", " ", "n", "o", "t", " ", "f", "o", "u", "n", "d", ":", " ">>)

BadIntMessage == Str(<<"i", "n", "v", "a", "l", "i", "d", " ", "l", "i", "t", "e", "r", "a", "l", " ", "f", "o", "r", " ", "i", "n", "t", "(", ")", " ", "w", "i", "t", "h", " ", "b", "a", "s", "e", " ", "1", "0", ":", " ">>)

\* one record of a LIST_RESP payload: name|isDir|size|mtime
ListLine(i) ==
    i.name \o Str(<<"|">>) \o IntToStr(IF i.dir THEN 1 ELSE 0) \o Str(<<"|">>)
    \o IntToStr(i.size) \o Str(<<"|">>) \o IntToStr(i.mtime)

\* the LIST_RESP packet for a list of entries
ListResponse(items) ==
    pack(TYPE_LIST_RESP,
         EncodeUtf8(JoinWith(<<10>>, [k \in 1..Len(items) |-> ListLine(items[k])])))

\* a variant of clip_end: a negative end is not taken as "to the end"
clip_end_beyond_only(end, file_size) == IF end > file_size THEN file_size ELSE end

\* the end of the range served: capped at file_size if it is negative or
\* beyond the file
clip_end(end, file_size) == IF end < 0 \/ end > file_size THEN file_size ELSE end

\* a variant of MetaPacket: the size reported is the end of the range served
MetaPacketOfRangeEnd(file_size, start, end) ==
    pack(TYPE_META, EncodeUtf8(IntToStr(end)))

\* the META packet of a GET for the range start..end of a file
MetaPacket(file_size, start, end) == pack(TYPE_META, EncodeUtf8(IntToStr(file_size)))

\* the packet sent for an exception e: its type ERR, its payload str(e)
ErrPacket(text) == pack(TYPE_ERR, EncodeUtf8(text))

GetOk(full_path, file_size, start, end, want_start, want_end) ==
    [st |-> "ok", exc |-> "", text |-> <<>>, full_path |-> full_path,
     file_size |-> file_size, start |-> start, end |-> end,
     want_start |-> want_start, want_end |-> want_end]

GetRaise(exc, text, full_path) ==
    [st |-> "raise", exc |-> exc, text |-> text, full_path |-> full_path,
     file_size |-> 0, start |-> 0, end |-> 0, want_start |-> 0, want_end |-> 0]

\* the TYPE_GET branch of handle_client up to the META packet: the range to
\* serve, or the exception raised
get_range(payload) ==
    LET parts == Split(DecodeReplace(payload), Ord["|"]) IN
    IF Len(parts) # 3 THEN GetRaise("ValueError", BadFormatMessage, <<>>)
    ELSE
    LET path == parts[1]
        start_str == parts[2]
        end_str == parts[3]
        full == safe_path(path)
    IN  IF full.st # "ok" THEN GetRaise(full.exc, full.text, <<>>)
        ELSE IF ~isfile(full.path)
        THEN GetRaise("FileNotFoundError", NotFoundMessage \o path, full.path)
        ELSE
        LET file_size == getsize(full.path)
            s == ParseInt(start_str)
            e == ParseInt(end_str)
        IN  IF ~s.ok
            THEN GetRaise("ValueError", BadIntMessage \o ReprStr(start_str), full.path)
            ELSE IF ~e.ok
            THEN GetRaise("ValueError", BadIntMessage \o ReprStr(end_str), full.path)
            ELSE GetOk(full.path, file_size, Max(0, s.val),
                       clip_end(e.val, file_size), s.val, e.val)

\* the real locations the TYPE_GET branch stats or opens
get_touched(payload) ==
    LET parts == Split(DecodeReplace(payload), Ord["|"]) IN
    IF Len(parts) # 3 THEN {}
    ELSE LET full == safe_path(parts[1]) IN
         IF full.st # "ok" THEN {} ELSE {RealPath(full.path)} \ {<<>>}


\* how many bytes the streaming loop asks the file for
to_read(remaining) == Min(CHUNK_SIZE, remaining)

\* f.read(n) at offset pos of a file holding data
file_read(data, pos, n) == SubSeq(data, pos + 1, Min(pos + n, Len(data)))

Request(kind, path, g, data, first) ==
    [kind |-> kind, t |-> TYPE_GET, text |-> <<>>, path |-> path, start |-> g.want_start,
     end |-> g.want_end, file_size |-> g.file_size, eff_start |-> g.start,
     eff_end |-> g.end, data |-> data, first |-> first, changed |-> FALSE,
     partial |-> <<>>]

\* a variant of after_exception: the try statement is inside the loop, which
\* goes on after the ERR packet
after_exception_resumes == "recv"

\* where handle_client is after an exception: the try statement encloses
\* the loop, and finally closes the socket
after_exception == "closed"

\* a variant of runs: the connections are handled one after the other, in
\* the order in which they were accepted
runs_in_accept_order(c) == \A d \in Conns : d < c => pc[d] = "closed"

\* a variant of reads_next: the next request is read while the chunks of a
\* GET are still being sent
reads_next_pipelined(position) == position \in {"recv", "stream"}

\* handle_client: recv_packet is called at the top of "while True" only,
\* which the handler reaches when the branch of the last request has ended
reads_next(position) == position = "recv"

\* main: every accepted connection is handed to a thread of its own
\* (threading.Thread(target=handle_client)), which runs whatever the
\* threads of the other connections are doing
runs(c) == TRUE

\* handle_client, one turn of its loop on connection c: recv_packet, then
\* the branch for its type up to the streaming loop; an exception other than
\* ConnectionError is answered with an ERR packet, and any exception ends
\* with the socket closed.  sendall is taken to succeed.
Serve(c) ==
    /\ reads_next(pc[c])
    /\ runs(c)
    /\ \E r \in {recv_packet_server([data |-> inb[c], closed |-> peerClosed[c]])} :
        /\ r.st # "block"
        /\ inb' = [inb EXCEPT ![c] = r.rest]
        /\ \E first \in {Len(out[c]) + 1},
              path \in {DecodeReplace(r.payload)},
              g \in {IF r.st = "ok" /\ r.t = TYPE_GET
                     THEN get_range(r.payload)
                     ELSE GetRaise("", <<>>, <<>>)} :
           CASE r.st = "raise" /\ r.exc = "ConnectionError" ->
                  /\ pc' = [pc EXCEPT ![c] = "closed"]
                  /\ req' = [req EXCEPT ![c] =
                                 [NoRequest EXCEPT !.kind = "eof", !.first = first,
                                                   !.partial = inb[c]]]
                  /\ UNCHANGED <<out, cur, accessed>>
             [] r.st = "raise" /\ r.exc # "ConnectionError" ->
                  /\ out' = [out EXCEPT ![c] =
                                 Append(@, ErrPacket(BadMagicMessage \o ReprBytes(r.data)))]
                  /\ pc' = [pc EXCEPT ![c] = after_exception]
                  /\ req' = [req EXCEPT ![c] =
                                 [NoRequest EXCEPT !.kind = "error", !.first = first,
                                                   !.partial = inb[c]]]
                  /\ UNCHANGED <<cur, accessed>>
             [] r.st = "ok" /\ r.t = TYPE_LIST ->
                  /\ out' = [out EXCEPT ![c] = Append(@, ListResponse(list_dir(path)))]
                  /\ accessed' = accessed \cup list_dir_touched(path)
                  /\ req' = [req EXCEPT ![c] =
                                 [NoRequest EXCEPT !.kind = "list", !.first = first,
                                                   !.t = r.t, !.text = path,
                                                   !.path = path]]
                  /\ UNCHANGED <<pc, cur>>
             [] r.st = "ok" /\ r.t = TYPE_GET /\ g.st = "raise" ->
                  /\ out' = [out EXCEPT ![c] = Append(@, ErrPacket(g.text))]
                  /\ pc' = [pc EXCEPT ![c] = after_exception]
                  /\ accessed' = accessed \cup get_touched(r.payload)
                  /\ req' = [req EXCEPT ![c] =
                                 [NoRequest EXCEPT !.kind = "error", !.first = first,
                                                   !.t = r.t, !.text = path]]
                  /\ UNCHANGED cur
             [] r.st = "ok" /\ r.t = TYPE_GET /\ g.st = "ok" ->
                  \E real \in {RealPath(g.full_path)} :
                      /\ out' = [out EXCEPT ![c] =
                                     Append(@, MetaPacket(g.file_size, g.start, g.end))]
                      /\ accessed' = accessed \cup {real}
                      /\ req' = [req EXCEPT ![c] =
                                     [Request("get", g.full_path, g, fs[real].data,
                                              first) EXCEPT !.text = path]]
                      /\ IF g.end > g.start
                         THEN /\ pc' = [pc EXCEPT ![c] = "stream"]
                              /\ cur' = [cur EXCEPT ![c] =
                                             [file |-> real, pos |-> g.start,
                                              remaining |-> g.end - g.start]]
                         ELSE UNCHANGED <<pc, cur>>
             [] r.st = "ok" /\ r.t \notin {TYPE_LIST, TYPE_GET} ->
                  /\ req' = [req EXCEPT ![c] =
                                 [NoRequest EXCEPT !.kind = "other", !.first = first,
                                                   !.t = r.t, !.text = path]]
                  /\ UNCHANGED <<out, pc, cur, accessed>>
    /\ UNCHANGED <<peerClosed, nreq, fsVars, pathVars, codecVars, dlVars>>

\* handle_client, one turn of the streaming loop of a GET on connection c
Stream(c) ==
    /\ pc[c] = "stream"
    /\ runs(c)
    /\ LET chunk == file_read(fs[cur[c].file].data, cur[c].pos,
                              to_read(cur[c].remaining))
       IN  IF chunk = <<>>
           THEN /\ pc' = [pc EXCEPT ![c] = "recv"]
                /\ cur' = [cur EXCEPT ![c] = NoGet]
                /\ UNCHANGED out
           ELSE /\ out' = [out EXCEPT ![c] = Append(@, pack(TYPE_CHUNK, chunk))]
                /\ IF cur[c].remaining - Len(chunk) > 0
                   THEN /\ cur' = [cur EXCEPT ![c].pos = @ + Len(chunk),
                                              ![c].remaining = @ - Len(chunk)]
                        /\ UNCHANGED pc
                   ELSE /\ pc' = [pc EXCEPT ![c] = "recv"]
                        /\ cur' = [cur EXCEPT ![c] = NoGet]
    /\ UNCHANGED <<inb, peerClosed, req, nreq, accessed, fsVars, pathVars, codecVars, dlVars>>

\* handle_client, sendall raising in the streaming loop because the peer
\* has closed the connection: the ERR packet cannot be sent either (its
\* exception is passed over), and the socket is closed
SendFails(c) ==
    /\ pc[c] = "stream"
    /\ runs(c)
    /\ peerClosed[c]
    /\ pc' = [pc EXCEPT ![c] = after_exception]
    /\ cur' = [cur EXCEPT ![c] = NoGet]
    /\ req' = [req EXCEPT ![c].kind = "ioerror"]
    /\ UNCHANGED <<inb, peerClosed, out, nreq, accessed, fsVars, pathVars, codecVars, dlVars>>

\* the client of connection c sends a packet
ClientSend(c, t, payload) ==
    /\ ~peerClosed[c]
    /\ nreq[1] + nreq[2] < MaxReqs
    /\ inb' = [inb EXCEPT ![c] = @ \o pack(t, payload)]
    /\ nreq' = [nreq EXCEPT ![c] = @ + 1]
    /\ UNCHANGED <<peerClosed, out, pc, cur, req, accessed, fsVars, pathVars, codecVars, dlVars>>

\* the client of connection c sends bytes that are no packet
ClientSendRaw(c, bytes) ==
    /\ ~peerClosed[c]
    /\ nreq[1] + nreq[2] < MaxReqs
    /\ inb' = [inb EXCEPT ![c] = @ \o bytes]
    /\ nreq' = [nreq EXCEPT ![c] = @ + 1]
    /\ UNCHANGED <<peerClosed, out, pc, cur, req, accessed, fsVars, pathVars, codecVars, dlVars>>

\* the client of connection c closes it
ClientClose(c) ==
    /\ ~peerClosed[c]
    /\ peerClosed' = [peerClosed EXCEPT ![c] = TRUE]
    /\ UNCHANGED <<inb, out, pc, cur, req, nreq, accessed, fsVars, pathVars, codecVars, dlVars>>

ServedFile == Str(<<"/", "r", "/", "a">>)

\* another process truncates the served file to n bytes
FileShrinks(n) ==
    /\ n < Len(fs[ServedFile].data)
    /\ fs' = [fs EXCEPT ![ServedFile].data = SubSeq(@, 1, n)]
    /\ req' = [c \in Conns |->
                  IF pc[c] = "stream" THEN [req[c] EXCEPT !.changed = TRUE] ELSE req[c]]
    /\ UNCHANGED <<root, inb, peerClosed, out, pc, cur, nreq, accessed, pathVars,
                   codecVars, dlVars>>

\* the payload of a GET request, as the clients build it
GetPayload(path, start, end) ==
    EncodeUtf8(path \o Str(<<"|">>) \o IntToStr(start) \o Str(<<"|">>) \o IntToStr(end))

\* the type and the payload of a sent packet (one sendall of the server)
SentType(b) == b[5]

SentPayload(b) == Drop(b, 9)

(***************************************************************************)
(* The download manager of the clients: API of src/Client/Client.py (impl  *)
(* = "gui") and FileBrowser of src/Client/CLI-Client.py (impl = "cli").    *)
(* The main thread is thread 0; download threads are numbered from 1 in    *)
(* the order in which they are started.                                    *)
(***************************************************************************)
Workers == 1..MaxTasks

\* os.path.basename(p): what follows the last separator
basename(p) ==
    LET idx == {i \in 1..Len(p) : p[i] = Ord["/"]} IN
    IF idx = {} THEN p
    ELSE Drop(p, CHOOSE i \in idx : \A j \in idx : j <= i)

\* a dict without entries
EmptyMap == [k \in {} |-> 0]

\* d[key] = value
Put(d, key, value) ==
    [k \in DOMAIN d \cup {key} |-> IF k = key THEN value ELSE d[k]]

\* the task a client stores when a download is enqueued.  started: whether
\* start_time is set; percent: the quotient stored by the command line
\* client, as <<numerator, denominator>> (the GUI client's tasks have no
\* such field, and it stays as it is here); error: the message that follows
\* "Error: " / "error: " in the status
NewTask(which, remote_path) ==
    [remote_path |-> remote_path, size |-> 0, downloaded |-> 0,
     started |-> (which = "cli"),
     status |-> IF which = "gui" THEN "preparing" ELSE "starting",
     error |-> <<>>, percent |-> <<0, 1>>]

\* a download thread.  pc: where it is; size, pos: its locals; file: the
\* bytes of the local file; reqs: the requests it has sent, each with the
\* number of the connection it was sent on; nconn: the connections it has
\* opened; recvd: the packets recv_packet has returned to it, each with the
\* number of its connection; failure: the
\* first failure of a connect or a receive, as the socket saw it ("connect",
\* "closed", "timeout", "magic", "remote"); exc: the message of the
\* exception that reached the handler
NoWorker ==
    [pc |-> "unborn", remote_path |-> <<>>, filename |-> <<>>, size |-> 0, pos |-> 0,
     file |-> <<>>, reqs |-> <<>>, nconn |-> 0, recvd |-> <<>>, failure |-> "",
     exc |-> <<>>]

\* a connection just opened: no byte received, n packets sent by the peer
NoConn == [data |-> <<>>, closed |-> FALSE, n |-> 0]

InitDl ==
    /\ downloads = EmptyMap
    /\ lock = {}
    /\ wk = [w \in Workers |-> NoWorker]
    /\ net = [w \in Workers |-> NoConn]
    /\ mainpc = "idle"
    /\ progress = EmptyMap
    /\ unlocked = {}

\* an access by a thread to a field of the task key: recorded if the thread
\* does not hold the lock
Touch(thread, key, field, held) ==
    IF thread \in held THEN unlocked
    ELSE unlocked \cup {[thread |-> thread, key |-> key, field |-> field]}

\* enqueue / download_file up to the end of the "with lock" block: the task
\* is stored under the base name of the remote path.  The user asks for a
\* remote path once, and for no more than MaxTasks paths.
EnqueueLock(remote_path) ==
    /\ mainpc = "idle"
    /\ lock = {}
    /\ \E w \in Workers : wk[w].pc = "unborn"
    /\ \A w \in Workers : wk[w].remote_path # remote_path
    /\ lock' = {0}
    /\ \E filename \in {basename(remote_path)}, w \in Workers :
           /\ wk[w].pc = "unborn"
           /\ \A v \in Workers : wk[v].pc = "unborn" => w <= v
           /\ downloads' = Put(downloads, filename, NewTask(impl, remote_path))
           /\ unlocked' = Touch(0, filename, "task", lock')
           /\ wk' = [wk EXCEPT ![w] = [NoWorker EXCEPT !.pc = "created",
                                                      !.remote_path = remote_path,
                                                      !.filename = filename]]
    /\ mainpc' = "enqueue"
    /\ UNCHANGED <<net, progress, codecVars, fsVars, pathVars, srvVars>>

\* enqueue / download_file: the lock is released and the thread is started
EnqueueStart ==
    /\ mainpc = "enqueue"
    /\ lock' = {}
    /\ wk' = [w \in Workers |->
                 IF wk[w].pc = "created" THEN [wk[w] EXCEPT !.pc = "probe"] ELSE wk[w]]
    /\ mainpc' = "idle"
    /\ UNCHANGED <<downloads, net, progress, unlocked, codecVars, fsVars, pathVars,
                   srvVars>>

\* round(dl / sz * 100, 1), in tenths (no size of the model is large enough
\* for a tie)
percent_tenths(dl, sz) == IF sz > 0 THEN (dl * 2000 + sz) \div (2 * sz) ELSE 0

\* a variant of tasks_after_progress: finished tasks are dropped from the map
tasks_after_progress_pruned(d) ==
    [k \in {x \in DOMAIN d : d[x].status # "completed"} |-> d[k]]

\* self.downloads as get_progress leaves it: it reads the tasks and builds
\* a new dict
tasks_after_progress(d) == d

\* get_progress of the GUI client: per task the percentage (in tenths), the
\* speed in MiB/s to two decimals (0.0 for the few bytes of a file of the
\* model, whatever the elapsed time) and the status
get_progress(d) ==
    [k \in DOMAIN d |->
        [percent |-> percent_tenths(d[k].downloaded, d[k].size), speed |-> 0,
         status |-> d[k].status, error |-> d[k].error]]

\* show_progress of the command line client: what it prints of each task
show_progress(d) ==
    [k \in DOMAIN d |->
        [percent |-> d[k].percent, status |-> d[k].status, error |-> d[k].error,
         downloaded |-> d[k].downloaded, size |-> d[k].size]]

\* get_progress / show_progress: the lock is taken and the tasks are read
SnapshotLock ==
    /\ mainpc = "idle"
    /\ lock = {}
    /\ lock' = {0}
    /\ \E result \in {IF impl = "gui" THEN get_progress(downloads)
                       ELSE show_progress(downloads)} : progress' = result
    /\ \E d \in {tasks_after_progress(downloads)} : downloads' = d
    /\ unlocked' = IF downloads = EmptyMap THEN unlocked
                   ELSE Touch(0, <<>>, "all", lock')
    /\ mainpc' = "snapshot"
    /\ UNCHANGED <<wk, net, codecVars, fsVars, pathVars, srvVars>>

\* get_progress / show_progress: the lock is released and the routine
\* returns, its result leaving the download manager
SnapshotUnlock ==
    /\ mainpc = "snapshot"
    /\ lock' = {}
    /\ mainpc' = "idle"
    /\ progress' = EmptyMap
    /\ UNCHANGED <<downloads, wk, net, unlocked, codecVars, fsVars, pathVars, srvVars>>

\* the message of the ValueError raised by the command line client when
\* get_file_size returns 0
NotFoundOrEmpty == <<"File not found or empty">>

\* a variant of probe_raises: a size of 0 is not taken as a failure
probe_raises_never(which, size) == FALSE

\* whether the thread raises after the probe: the command line client does
\* for a size of 0 (which get_file_size also returns for any exception)
probe_raises(which, size) == which = "cli" /\ size = 0

\* the thread w with an exception on its way to the handler
Raising(w, cause, text) ==
    [wk[w] EXCEPT !.pc = "except", !.exc = text,
                  !.failure = IF @ = "" THEN cause ELSE @]

\* the thread w after a failure inside _get_size / get_file_size: the GUI
\* client lets the exception through; the command line client catches it,
\* returns 0 and raises its own ValueError unless probe_raises says otherwise
ProbeFailed(w, cause, text) ==
    IF impl = "gui" THEN Raising(w, cause, text)
    ELSE IF probe_raises(impl, 0) THEN Raising(w, cause, NotFoundOrEmpty)
    ELSE [wk[w] EXCEPT !.pc = "set_size", !.size = 0,
                       !.failure = IF @ = "" THEN cause ELSE @]

\* the file as _download of the GUI client prepares it: size bytes long
Presize(size) == IF size > 0 THEN [i \in 1..size |-> 0] ELSE <<>>

\* f.seek(pos); f.write(data)
WriteAt(file, pos, data) ==
    LET before == [i \in 1..pos |-> IF i <= Len(file) THEN file[i] ELSE 0]
    IN  before \o data \o Drop(file, pos + Len(data))

\* int(data.decode()): [ok, val]
ParseSize(payload) ==
    LET d == DecodeStrict(payload) IN
    IF ~d.ok THEN [ok |-> FALSE, val |-> 0] ELSE ParseInt(d.text)

\* the message of an exception of recv_packet, as str(e)
ExcText(r) == r.text \o <<r.data>>

\* _get_size / get_file_size: a connection is opened and the probe, a GET
\* of the range 0..1, is sent; ok tells whether connect succeeds
Probe(w, ok) ==
    /\ wk[w].pc = "probe"
    /\ net' = [net EXCEPT ![w] = NoConn]
    /\ wk' = [wk EXCEPT ![w] =
                 IF ok
                 THEN [wk[w] EXCEPT !.pc = "probe_recv", !.nconn = @ + 1,
                          !.reqs = Append(@, [conn |-> wk[w].nconn + 1,
                                              payload |-> GetPayload(wk[w].remote_path,
                                                                     0, 1)])]
                 ELSE [ProbeFailed(w, "connect", <<"Connection refused">>)
                          EXCEPT !.nconn = @ + 1]]
    /\ UNCHANGED <<downloads, lock, mainpc, progress, unlocked, codecVars, fsVars,
                   pathVars, srvVars>>

\* _get_size / get_file_size: the answer to the probe is read and the
\* connection closed; the GUI client then prepares the local file
ProbeRecv(w) ==
    /\ wk[w].pc = "probe_recv"
    /\ \E r \in {recv_packet(impl, [data |-> net[w].data, closed |-> net[w].closed])} :
        \E size \in {IF r.st = "ok" /\ r.t = TYPE_META THEN ParseSize(r.payload)
                     ELSE [ok |-> TRUE, val |-> 0]} :
           /\ wk' = [wk EXCEPT ![w] =
                CASE r.st # "ok" -> ProbeFailed(w, r.cause, ExcText(r))
                  [] r.st = "ok" /\ ~size.ok ->
                       [ProbeFailed(w, "", <<"invalid literal for int()">>)
                            EXCEPT !.recvd = Append(@, [conn |-> wk[w].nconn, t |-> r.t,
                                                 payload |-> r.payload])]
                  [] r.st = "ok" /\ size.ok /\ probe_raises(impl, size.val) ->
                       [Raising(w, "", NotFoundOrEmpty)
                            EXCEPT !.recvd = Append(@, [conn |-> wk[w].nconn, t |-> r.t,
                                                 payload |-> r.payload])]
                  [] OTHER ->
                       [wk[w] EXCEPT !.pc = "set_size", !.size = size.val,
                                     !.recvd = Append(@, [conn |-> wk[w].nconn,
                                                          t |-> r.t,
                                                          payload |-> r.payload]),
                                     !.file = IF impl = "gui" THEN Presize(size.val)
                                              ELSE @]]
           /\ net' = [net EXCEPT ![w] = NoConn]
    /\ UNCHANGED <<downloads, lock, mainpc, progress, unlocked, codecVars, fsVars,
                   pathVars, srvVars>>

\* _download / _download_thread: the "with lock" block in which the size
\* is stored and the status becomes "downloading".  The thread acquires
\* the lock and writes; Unlock is the end of the block.
SetSize(w) ==
    /\ wk[w].pc = "set_size"
    /\ lock = {}
    /\ lock' = {w}
    /\ downloads' = [downloads EXCEPT ![wk[w].filename] =
                        [@ EXCEPT !.size = wk[w].size, !.status = "downloading",
                                  !.started = TRUE]]
    /\ unlocked' = Touch(w, wk[w].filename, "size", lock')
    /\ wk' = [wk EXCEPT ![w].pc = "set_size_rel"]
    /\ UNCHANGED <<net, mainpc, progress, codecVars, fsVars, pathVars, srvVars>>

\* a variant of released: leaving the block does not give the lock back
released_never(held, w) == held

\* the lock when thread w leaves a "with lock" block
released(held, w) == held \ {w}

\* where a thread goes on after a "with lock" block
AfterBlock(position) ==
    CASE position = "set_size_rel" -> "connect2"
      [] position = "progress_rel" -> "stream"
      [] position = "complete_rel" -> "done"
      [] position = "except_rel" -> "done"

\* the end of a "with lock" block of a download thread
Unlock(w) ==
    /\ wk[w].pc \in {"set_size_rel", "progress_rel", "complete_rel", "except_rel"}
    /\ lock' = released(lock, w)
    /\ wk' = [wk EXCEPT ![w].pc = AfterBlock(@)]
    /\ UNCHANGED <<downloads, net, mainpc, progress, unlocked, codecVars, fsVars,
                   pathVars, srvVars>>

\* _download / _download_thread: the second connection is opened and the
\* GET of the range 0..size is sent; ok tells whether connect succeeds
Connect2(w, ok) ==
    /\ wk[w].pc = "connect2"
    /\ net' = [net EXCEPT ![w] = NoConn]
    /\ wk' = [wk EXCEPT ![w] =
                 IF ok
                 THEN [wk[w] EXCEPT !.pc = "meta_recv", !.nconn = @ + 1,
                          !.reqs = Append(@, [conn |-> wk[w].nconn + 1,
                                              payload |-> GetPayload(wk[w].remote_path,
                                                                     0, wk[w].size)])]
                 ELSE [Raising(w, "connect", <<"Connection refused">>)
                          EXCEPT !.nconn = @ + 1]]
    /\ UNCHANGED <<downloads, lock, mainpc, progress, unlocked, codecVars, fsVars,
                   pathVars, srvVars>>

\* _download / _download_thread: recv_packet(s), whose result is dropped
\* ("Meta"); the local file is then opened (the command line client
\* truncates it)
MetaRecv(w) ==
    /\ wk[w].pc = "meta_recv"
    /\ \E r \in {recv_packet(impl, [data |-> net[w].data, closed |-> net[w].closed])} :
           /\ wk' = [wk EXCEPT ![w] =
                IF r.st # "ok" THEN Raising(w, r.cause, ExcText(r))
                ELSE [wk[w] EXCEPT !.pc = "stream", !.pos = 0,
                                   !.recvd = Append(@, [conn |-> wk[w].nconn, t |-> r.t,
                                                 payload |-> r.payload]),
                                   !.file = IF impl = "cli" THEN <<>> ELSE @]]
           /\ net' = [net EXCEPT ![w].data = r.rest]
    /\ UNCHANGED <<downloads, lock, mainpc, progress, unlocked, codecVars, fsVars,
                   pathVars, srvVars>>

\* where a thread goes when its loop ends: the command line client closes
\* the socket and reads start_time, the GUI client marks the task completed
AfterLoop(which) == IF which = "cli" THEN "elapsed" ELSE "complete"

\* one turn of "while pos < size": a packet is received; a packet that is
\* no CHUNK ends the loop, a CHUNK is written at pos (recvd keeps no CHUNK
\* without payload: there may be any number of them)
StreamStep(w) ==
    /\ wk[w].pc = "stream"
    /\ IF wk[w].pos >= wk[w].size
       THEN /\ wk' = [wk EXCEPT ![w].pc = AfterLoop(impl)]
            /\ UNCHANGED net
       ELSE \E r \in {recv_packet(impl, [data |-> net[w].data,
                                         closed |-> net[w].closed])} :
               /\ wk' = [wk EXCEPT ![w] =
                    CASE r.st # "ok" -> Raising(w, r.cause, ExcText(r))
                      [] r.st = "ok" /\ r.t # TYPE_CHUNK ->
                           [wk[w] EXCEPT !.pc = AfterLoop(impl),
                                         !.recvd = Append(@, [conn |-> wk[w].nconn,
                                                              t |-> r.t,
                                                              payload |-> r.payload])]
                      [] OTHER ->
                           [wk[w] EXCEPT !.pc = "progress",
                                         !.file = WriteAt(@, wk[w].pos, r.payload),
                                         !.pos = @ + Len(r.payload),
                                         !.recvd =
                                             IF r.payload = <<>> THEN @
                                             ELSE Append(@, [conn |-> wk[w].nconn,
                                                             t |-> r.t,
                                                             payload |-> r.payload])]]
               /\ net' = [net EXCEPT ![w].data = r.rest]
    /\ UNCHANGED <<downloads, lock, mainpc, progress, unlocked, codecVars, fsVars,
                   pathVars, srvVars>>

\* with the lock, downloaded (and percent, in the command line client) is
\* updated after a chunk
Progress(w) ==
    /\ wk[w].pc = "progress"
    /\ lock = {}
    /\ lock' = {w}
    /\ downloads' = [downloads EXCEPT ![wk[w].filename] =
                        [@ EXCEPT !.downloaded = wk[w].pos,
                                  !.percent = IF impl = "cli"
                                              THEN <<wk[w].pos * 100, wk[w].size>>
                                              ELSE @]]
    /\ unlocked' = Touch(w, wk[w].filename, "downloaded", lock')
    /\ wk' = [wk EXCEPT ![w].pc = "progress_rel"]
    /\ UNCHANGED <<net, mainpc, progress, codecVars, fsVars, pathVars, srvVars>>

\* _download_thread of the command line client, after the loop:
\* elapsed = time.time() - self.downloads[filename]["start_time"], which is
\* outside any "with self.download_lock" block
Elapsed(w) ==
    /\ wk[w].pc = "elapsed"
    /\ unlocked' = Touch(w, wk[w].filename, "start_time", lock)
    /\ wk' = [wk EXCEPT ![w].pc = "complete"]
    /\ UNCHANGED <<downloads, lock, net, mainpc, progress, codecVars, fsVars, pathVars,
                   srvVars>>

\* with the lock, the status becomes "completed"
Complete(w) ==
    /\ wk[w].pc = "complete"
    /\ lock = {}
    /\ lock' = {w}
    /\ downloads' = [downloads EXCEPT ![wk[w].filename] =
                        [@ EXCEPT !.status = "completed",
                                  !.percent = IF impl = "cli" THEN <<100, 1>> ELSE @]]
    /\ unlocked' = Touch(w, wk[w].filename, "status", lock')
    /\ wk' = [wk EXCEPT ![w].pc = "complete_rel"]
    /\ UNCHANGED <<net, mainpc, progress, codecVars, fsVars, pathVars, srvVars>>

\* except Exception as e: with the lock, the status becomes the error
Except(w) ==
    /\ wk[w].pc = "except"
    /\ lock = {}
    /\ lock' = {w}
    /\ downloads' = [downloads EXCEPT ![wk[w].filename] =
                        [@ EXCEPT !.status = "error", !.error = wk[w].exc]]
    /\ unlocked' = Touch(w, wk[w].filename, "status", lock')
    /\ wk' = [wk EXCEPT ![w].pc = "except_rel"]
    /\ UNCHANGED <<net, mainpc, progress, codecVars, fsVars, pathVars, srvVars>>

\* the positions at which a thread has a connection open and may be sent
\* bytes
Connected == {"probe_recv", "meta_recv", "stream", "progress"}

\* the peer sends a packet (or other bytes) on the connection of thread w
PeerSendPacket(w, bytes) ==
    /\ wk[w].pc \in Connected
    /\ ~net[w].closed
    /\ net[w].n < MaxPeerMsgs
    /\ net' = [net EXCEPT ![w].data = @ \o bytes, ![w].n = @ + 1]
    /\ UNCHANGED <<downloads, lock, wk, mainpc, progress, unlocked, codecVars, fsVars,
                   pathVars, srvVars>>

\* the peer closes the connection of thread w
PeerCloseConn(w) ==
    /\ wk[w].pc \in Connected
    /\ ~net[w].closed
    /\ net' = [net EXCEPT ![w].closed = TRUE]
    /\ UNCHANGED <<downloads, lock, wk, mainpc, progress, unlocked, codecVars, fsVars,
                   pathVars, srvVars>>

\* the peer sends a CHUNK packet without payload to a thread in its
\* streaming loop that has read all it was sent; a peer can do so as often
\* as it likes
PeerSendEmptyChunk(w) ==
    /\ wk[w].pc = "stream"
    /\ ~net[w].closed
    /\ net[w].data = <<>>
    /\ net' = [net EXCEPT ![w].data = pack(TYPE_CHUNK, <<>>)]
    /\ UNCHANGED <<downloads, lock, wk, mainpc, progress, unlocked, codecVars, fsVars,
                   pathVars, srvVars>>

RECURSIVE Chunks(_, _)
\* the CHUNK packets of the streaming loop of the server for the bytes data
Chunks(data, remaining) ==
    IF remaining <= 0 \/ data = <<>> THEN <<>>
    ELSE LET chunk == SubSeq(data, 1, Min(to_read(remaining), Len(data)))
         IN  <<pack(TYPE_CHUNK, chunk)>>
             \o Chunks(Drop(data, Len(chunk)), remaining - Len(chunk))

\* everything the server sends in answer to a GET whose range is g, of a
\* file holding data that does not change meanwhile: the ERR packet, or the
\* META packet and the CHUNK packets (Serve and Stream, run to the end of
\* the request)
Respond(g, data) ==
    IF g.st = "raise" THEN ErrPacket(g.text)
    ELSE MetaPacket(g.file_size, g.start, g.end)
         \o (IF g.end > g.start
             THEN Concat(Chunks(Drop(data, g.start), g.end - g.start))
             ELSE <<>>)

\* this repository's server answers the request thread w has sent on its
\* connection
PeerAnswer(w) ==
    /\ wk[w].pc \in {"probe_recv", "meta_recv"}
    /\ ~net[w].closed
    /\ net[w].n = 0
    /\ \E g \in {get_range(wk[w].reqs[Len(wk[w].reqs)].payload)} :
        \E data \in {IF g.st = "raise" THEN <<>> ELSE fs[RealPath(g.full_path)].data} :
        \E bytes \in {Respond(g, data)} :
           net' = [net EXCEPT ![w].data = bytes, ![w].n = 1]
    /\ UNCHANGED <<downloads, lock, wk, mainpc, progress, unlocked, codecVars, fsVars,
                   pathVars, srvVars>>

\* the remote tree of the downloads: under /r the files p/f (1 byte), q/f
\* (2 bytes), g (1 byte) and e (empty)
FsRemote ==
    (sep :> Dir(<<Str(<<"r">>)>>, 1))
    @@ (RootR :> Dir(<<Str(<<"e">>), Str(<<"g">>), Str(<<"p">>), Str(<<"q">>)>>, 2))
    @@ (Str(<<"/", "r", "/", "e">>) :> File(<<>>, 8))
    @@ (Str(<<"/", "r", "/", "g">>) :> File(FileBytes(1), 3))
    @@ (Str(<<"/", "r", "/", "p">>) :> Dir(<<Str(<<"f">>)>>, 4))
    @@ (Str(<<"/", "r", "/", "p", "/", "f">>) :> File(FileBytes(1), 5))
    @@ (Str(<<"/", "r", "/", "q">>) :> Dir(<<Str(<<"f">>)>>, 6))
    @@ (Str(<<"/", "r", "/", "q", "/", "f">>) :> File(FileBytes(2), 7))

(***************************************************************************)
(* Specifications.                                                         *)
(***************************************************************************)
\* the codec on its own: one read per socket
InitCodecSpec ==
    /\ InitCodec
    /\ root = RootR
    /\ fs = FsPlain(0)
    /\ IdlePath
    /\ InitServer
    /\ InitDl

NextCodec ==
    \/ \E t \in Types, p \in Payloads, tail \in Tails : PeerSend(t, p, tail)
    \/ \E k \in 0..9 : PeerSendCut(k)
    \/ PeerSendBadMagic
    \/ PeerClose
    \/ Recv

SpecCodec == InitCodecSpec /\ [][NextCodec]_vars

\* the codec over many sockets, one after the other
NextErrors ==
    \/ \E t \in {TYPE_META, TYPE_ERR}, p \in {<<>>, <<65>>} : PeerSend(t, p, <<>>)
    \/ \E k \in 0..9 : PeerSendCut(k)
    \/ PeerSendBadMagic
    \/ PeerClose
    \/ Recv
    \/ NewSocket

SpecErrors == InitCodecSpec /\ [][NextErrors]_vars

\* the sandbox and the lister on their own
InitPathSpec ==
    /\ IdleCodec
    /\ InitPath
    /\ InitServer
    /\ InitDl

NextPath == CallSafePath \/ CallListDir

SpecPath == InitPathSpec /\ [][NextPath]_vars

\* one client asks for a range of the file a, of any size up to
\* MaxFileSize, while the file may shrink
InitGet ==
    /\ IdleCodec
    /\ IdlePath
    /\ InitServer
    /\ InitDl
    /\ root = RootR
    /\ fs \in {FsPlain(n) : n \in 0..MaxFileSize}

NextGet ==
    \/ \E s, e \in (-1)..(MaxFileSize + 1) :
           nreq[1] = 0 /\ ClientSend(1, TYPE_GET, GetPayload(Str(<<"a">>), s, e))
    \/ Serve(1)
    \/ Stream(1)
    \/ \E n \in 0..MaxFileSize : FileShrinks(n)

SpecGet == InitGet /\ [][NextGet]_vars

\* the paths and requests the clients of the server send
ListPaths ==
    {Str(<<"/">>), Str(<<"l">>), Str(<<".", ".", "/", "s">>), Str(<<"a">>),
     Str(<<"z", "z">>), Str(<<"d">>)}

GetPayloads ==
    {GetPayload(Str(<<"a">>), 0, -1),
     GetPayload(Str(<<"m">>), 0, -1),
     GetPayload(Str(<<"z", "z">>), 0, -1),
     GetPayload(Str(<<".", ".", "/", "s", "/", "k">>), 0, -1),
     GetPayload(Str(<<"d">>), 0, -1),
     GetPayload(Str(<<"x">>), 0, -1),
     Str(<<"a", "|", "0">>),
     Str(<<"a", "|", "x", "|", "1">>)}

\* packet types the dispatcher has no branch for: those of the responses
\* and 0x06, which the protocol does not use
OtherTypes == {TYPE_LIST_RESP, TYPE_META, TYPE_CHUNK, 6, TYPE_ERR}

WrongMagic == Str(<<"L", "D", "T", "2">>) \o Drop(pack(TYPE_LIST, <<>>), 4)

\* the first six bytes of a request, the client stopping in the middle
CutRequest == SubSeq(pack(TYPE_LIST, Str(<<"d">>)), 1, 6)

\* the server with its connections, over a tree with or without symbolic
\* links
Init ==
    /\ IdleCodec
    /\ IdlePath
    /\ InitServer
    /\ InitDl
    /\ root = RootR
    /\ fs \in {FsPlain(3), FsLinks(3)}

Next ==
    \E c \in Conns :
        \/ \E path \in ListPaths : ClientSend(c, TYPE_LIST, EncodeUtf8(path))
        \/ \E payload \in GetPayloads : ClientSend(c, TYPE_GET, payload)
        \/ \E t \in OtherTypes : ClientSend(c, t, <<>>)
        \/ \E bytes \in {WrongMagic, CutRequest} : ClientSendRaw(c, bytes)
        \/ ClientClose(c)
        \/ Serve(c)
        \/ Stream(c)
        \/ SendFails(c)

Spec == Init /\ [][Next]_vars

\* the download manager of a client (GUI or command line)
InitClient ==
    /\ impl \in {"gui", "cli"}
    /\ sock = [data |-> <<>>, closed |-> FALSE]
    /\ sent = NothingSent
    /\ res = NoResult
    /\ errs = {}
    /\ IdlePath
    /\ InitServer
    /\ InitDl
    /\ root = RootR
    /\ fs = FsRemote

\* the remote paths the user downloads: two files of the same name in
\* different directories and an empty file
RemotePaths ==
    {Str(<<"p", "/", "f">>), Str(<<"q", "/", "f">>), Str(<<"e">>)}

\* what a peer that need not be this repository's server sends: packets of
\* every type the clients tell apart, a chunk longer than the size
\* announced, and bytes that are no packet
PeerPackets ==
    {pack(TYPE_META, Str(<<"2">>)),
     pack(TYPE_META, Str(<<"x">>)),
     pack(TYPE_CHUNK, FileBytes(1)),
     pack(TYPE_CHUNK, FileBytes(3)),
     pack(TYPE_ERR, Str(<<"n", "o">>)),
     pack(TYPE_LIST_RESP, <<>>),
     WrongMagic}

\* up to MaxTasks downloads at once from this repository's server, while
\* the progress is polled
NextTasks ==
    \/ \E remote_path \in RemotePaths : EnqueueLock(remote_path)
    \/ EnqueueStart
    \/ SnapshotLock
    \/ SnapshotUnlock
    \/ \E w \in Workers :
        \/ \E ok \in BOOLEAN : Probe(w, ok)
        \/ ProbeRecv(w)
        \/ SetSize(w)
        \/ Unlock(w)
        \/ \E ok \in BOOLEAN : Connect2(w, ok)
        \/ MetaRecv(w)
        \/ StreamStep(w)
        \/ Progress(w)
        \/ Elapsed(w)
        \/ Complete(w)
        \/ Except(w)
        \/ PeerAnswer(w)

SpecTasks == InitClient /\ [][NextTasks]_vars

\* one download from any peer
NextDownload ==
    \/ \E remote_path \in {Str(<<"g">>)} : EnqueueLock(remote_path)
    \/ EnqueueStart
    \/ \E ok \in BOOLEAN : Probe(1, ok)
    \/ ProbeRecv(1)
    \/ SetSize(1)
    \/ Unlock(1)
    \/ \E ok \in BOOLEAN : Connect2(1, ok)
    \/ MetaRecv(1)
    \/ StreamStep(1)
    \/ Progress(1)
    \/ Elapsed(1)
    \/ Complete(1)
    \/ Except(1)
    \/ \E bytes \in PeerPackets : PeerSendPacket(1, bytes)
    \/ PeerCloseConn(1)

SpecDownload == InitClient /\ [][NextDownload]_vars

\* a step of download thread w
WorkerStep(w) ==
    \/ \E ok \in BOOLEAN : Probe(w, ok)
    \/ ProbeRecv(w)
    \/ SetSize(w)
    \/ Unlock(w)
    \/ \E ok \in BOOLEAN : Connect2(w, ok)
    \/ MetaRecv(w)
    \/ StreamStep(w)
    \/ Progress(w)
    \/ Elapsed(w)
    \/ Complete(w)
    \/ Except(w)

\* one download from any peer, which may go on sending for ever; the main
\* thread and the download thread are scheduled again and again.  No
\* receive waits for ever: recv_exact sets a timeout on the socket at each
\* call, so a receive returns bytes, or fails on a close or a timeout.
NextLive ==
    \/ \E remote_path \in {Str(<<"g">>)} : EnqueueLock(remote_path)
    \/ EnqueueStart
    \/ WorkerStep(1)
    \/ \E bytes \in PeerPackets : PeerSendPacket(1, bytes)
    \/ PeerCloseConn(1)
    \/ PeerSendEmptyChunk(1)

SpecLive ==
    InitClient /\ [][NextLive]_vars /\ WF_vars(EnqueueStart) /\ WF_vars(WorkerStep(1))

(***************************************************************************)
(* The claims.                                                             *)
(***************************************************************************)
\* C1: for every client-supplied relative path, safe_path either returns a
\* path that is root itself or lies below root (root's components are a
\* prefix of its components, and none of its components is ".."), or raises
\* the security error; it never returns a path outside root.
C1_SafePathInsideRoot ==
    ret.op = "safe_path" =>
        \/ /\ ret.st = "raise"
           /\ ret.exc = "ValueError"
           /\ ret.text = SecurityMessage
        \/ /\ ret.st = "ok"
           /\ LET rc == Components(root)
                  fc == Components(ret.path)
              IN  /\ Len(fc) >= Len(rc)
                  /\ SubSeq(fc, 1, Len(rc)) = rc
                  /\ \A i \in 1..Len(fc) : fc[i] # Str(<<".", ".">>)
                  /\ (ret.path = root \/ StartsWith(ret.path, root \o sep)
                      \/ root = sep)

\* C1 witness: the escape a/../../rs below the root /r has been refused.
WitnessC1_EscapeRefused ==
    /\ root = RootR
    /\ arg = Str(<<"a", "/", ".", ".", "/", ".", ".", "/", "r", "s">>)
    /\ ret.op = "safe_path"
    /\ ret.st = "raise"

\* C3: a relative path that canonicalizes to the root itself is accepted by
\* safe_path, and list_dir of it returns one record per child of root that
\* can be stat'ed.
C3_RootIsAccepted ==
    abspath(join(root, LStrip(arg, {Ord["\\"], Ord["/"], Ord[" "]}))) = root =>
        /\ ret.op = "safe_path" => ret.st = "ok"
        /\ ret.op = "list_dir" =>
               Len(ret.items) =
                   Cardinality({i \in 1..Len(listdir(root)) :
                                    stat_ok(join(root, listdir(root)[i]))})

\* C4 as claimed: for every packet type 0..255 and every payload, decoding
\* the stream produced by pack(type, payload) returns (type, payload) and
\* consumes exactly 9 + len(payload) bytes, leaving what follows.
C4_RoundTripEveryType ==
    (sent.kind = "packet" /\ res.st # "none") =>
        /\ res.st = "ok"
        /\ res.t = sent.t
        /\ res.payload = sent.payload
        /\ Len(pack(sent.t, sent.payload)) = 9 + Len(sent.payload)
        /\ sock.data = sent.tail

\* C4 as amended: the same for every packet type other than ERR (0x07), in
\* each of the three programs.
C4_RoundTrip ==
    (sent.kind = "packet" /\ sent.t # TYPE_ERR /\ res.st # "none") =>
        /\ res.st = "ok"
        /\ res.t = sent.t
        /\ res.payload = sent.payload
        /\ Len(pack(sent.t, sent.payload)) = 9 + Len(sent.payload)
        /\ sock.data = sent.tail

\* C4 witness: a client has decoded a packet with a payload that is
\* followed by another packet, which is left on the stream.
WitnessC4_Decoded ==
    /\ impl = "gui"
    /\ sent.kind = "packet"
    /\ sent.t = 255
    /\ sent.payload = <<65, 255>>
    /\ sent.tail = pack(TYPE_CHUNK, <<65>>)
    /\ res.st = "ok"
    /\ sock.data = pack(TYPE_CHUNK, <<65>>)

\* C5: whenever a decoded packet has type ERR, recv_packet fails with an
\* error whose message is the packet's payload, and it never returns a
\* packet of type ERR to its caller.
C5_ErrNeverReturned ==
    /\ res.st = "ok" => res.t # TYPE_ERR
    /\ (sent.kind = "packet" /\ sent.t = TYPE_ERR /\ res.st # "none") =>
           (res.st = "raise" /\ res.cause = "remote")

\* C6: the three causes of a failed read are reported as distinguishable
\* outcomes: no two of peer close, timeout and wrong magic give the same
\* exception with the same message.
C6_CausesDistinguishable ==
    \A a, b \in errs :
        a.cause # b.cause => <<a.exc, a.text, a.data>> # <<b.exc, b.text, b.data>>

\* C2: over any sequence of LIST and GET requests on any number of
\* connections, and for any tree under root (one with symbolic links to the
\* outside included), every entry the server stats, lists or opens is root
\* or lies below root.
C2_NothingOutsideRoot ==
    \A p \in accessed :
        LET rc == Components(root)
            ac == Components(p)
        IN  Len(ac) >= Len(rc) /\ SubSeq(ac, 1, Len(rc)) = rc

\* C7: for every GET of an existing regular file, with any start and end,
\* the first packet of the response is a META packet, every packet after it
\* is a CHUNK packet, and the META payload is the decimal string of the
\* file's total size.
C7_OneMetaFirstWithTotalSize ==
    \A c \in Conns :
        req[c].kind = "get" =>
            LET resp == SubSeq(out[c], req[c].first, Len(out[c]))
                digits == SentPayload(resp[1])
            IN  /\ Len(resp) >= 1
                /\ SentType(resp[1]) = TYPE_META
                /\ digits # <<>>
                /\ \A i \in 1..Len(digits) : IsDigit(digits[i])
                /\ (Len(digits) > 1 => digits[1] # 48)
                /\ DigitsValue(digits) = Len(req[c].data)
                /\ \A i \in 2..Len(resp) : SentType(resp[i]) = TYPE_CHUNK

\* C7 witness: a GET of bytes 1..3 of a larger file has been answered with
\* a META packet and chunks.
WitnessC7_PartialRange ==
    /\ req[1].kind = "get"
    /\ pc[1] = "recv"
    /\ req[1].eff_start = 1
    /\ req[1].eff_end = 3
    /\ Len(req[1].data) > 3
    /\ Len(out[1]) >= 2

\* C8: for a file of size S and the start the server uses, a requested end
\* of -1, S or more than S gives the effective end S, and a requested end in
\* [start, S) is used unchanged.
C8_RangeClipping ==
    \A c \in Conns :
        req[c].kind = "get" =>
            LET S == Len(req[c].data) IN
            /\ (req[c].end = -1 \/ req[c].end >= S) => req[c].eff_end = S
            /\ (req[c].end >= req[c].eff_start /\ req[c].end < S) =>
                   req[c].eff_end = req[c].end

\* C8 witness: a GET to the end (-1) of a file that is not empty has been
\* handled.
WitnessC8_ToEnd ==
    /\ req[1].kind = "get"
    /\ req[1].end = -1
    /\ req[1].eff_end = Len(req[1].data)
    /\ Len(req[1].data) > 1

\* C9: for every GET, the effective range satisfies
\* start <= end_effective <= fileSize.
C9_RangeOrdered ==
    \A c \in Conns :
        req[c].kind = "get" =>
            /\ req[c].eff_start <= req[c].eff_end
            /\ req[c].eff_end <= Len(req[c].data)

\* C10: for a GET whose effective range is [start, end), of a file that does
\* not change during the request, once the response is complete the lengths
\* of its CHUNK payloads sum to end - start, the payloads in order are the
\* file's bytes start..end-1, and each payload is non-empty and at most
\* CHUNK_SIZE long.
C10_StreamingComplete ==
    \A c \in Conns :
        (/\ req[c].kind = "get"
         /\ ~req[c].changed
         /\ pc[c] # "stream") =>
            LET resp == SubSeq(out[c], req[c].first + 1, Len(out[c]))
                chunks == [i \in 1..Len(resp) |-> SentPayload(resp[i])]
                bytes == SubSeq(req[c].data, req[c].eff_start + 1, req[c].eff_end)
            IN  /\ \A i \in 1..Len(chunks) :
                       Len(chunks[i]) >= 1 /\ Len(chunks[i]) <= CHUNK_SIZE
                /\ Len(Concat(chunks)) = req[c].eff_end - req[c].eff_start
                /\ Concat(chunks) = bytes

\* C11: on any failure during a connection other than the peer closing,
\* the server sends at most one ERR packet, which carries str() of the
\* exception and is the last packet sent on the connection; the connection
\* is then closed, and nothing more is read, handled or sent on it.
C11_ErrOnceThenClosed ==
    /\ [](\A c \in Conns :
            LET errIdx == {i \in 1..Len(out[c]) : SentType(out[c][i]) = TYPE_ERR}
                msg == SentPayload(out[c][Len(out[c])])
                quoted(name) == name \o Str(<<"|", "0", "|", "-", "1">>)
                notFound(name) ==
                    Str(<<"F", "i", "l", "e", " ", "n", "o", "t", " ", "f", "o", "u",
                          "n", "d", ":", " ">>) \o name
            IN  /\ Cardinality(errIdx) <= 1
                /\ \A i \in errIdx : i = Len(out[c]) /\ pc[c] = "closed"
                /\ req[c].kind \in {"error", "ioerror"} => pc[c] = "closed"
                /\ req[c].kind = "error" =>
                       /\ errIdx = {Len(out[c])}
                       /\ req[c].first = Len(out[c])
                       /\ req[c].t = -1 =>
                              msg = Str(<<"I", "n", "v", "a", "l", "i", "d", " ", "p",
                                          "r", "o", "t", "o", "c", "o", "l", " ", "m",
                                          "a", "g", "i", "c", ":", " ", "b", "'", "L",
                                          "D", "T", "2", "'">>)
                       /\ req[c].text = Str(<<"a", "|", "0">>) =>
                              msg = Str(<<"I", "n", "v", "a", "l", "i", "d", " ", "G",
                                          "E", "T", " ", "r", "e", "q", "u", "e", "s",
                                          "t", " ", "f", "o", "r", "m", "a", "t">>)
                       /\ req[c].text = quoted(Str(<<".", ".", "/", "s", "/", "k">>)) =>
                              msg = Str(<<"S", "e", "c", "u", "r", "i", "t", "y", ":",
                                          " ", "P", "a", "t", "h", " ", "t", "r", "a",
                                          "v", "e", "r", "s", "a", "l", " ", "a", "t",
                                          "t", "e", "m", "p", "t", " ", "b", "l", "o",
                                          "c", "k", "e", "d">>)
                       /\ \A name \in {Str(<<"z", "z">>), Str(<<"d">>), Str(<<"x">>)} :
                              req[c].text = quoted(name) => msg = notFound(name))
    /\ [][\A c \in Conns :
            pc[c] = "closed" =>
                /\ pc'[c] = "closed"
                /\ out'[c] = out[c]
                /\ req'[c] = req[c]
                /\ Len(inb'[c]) >= Len(inb[c])]_vars

\* C11 witness: a GET of a missing file has been answered with an ERR
\* packet, the connection is closed, and a request sent on it afterwards
\* stays unread.
WitnessC11_ErrThenUnread ==
    /\ req[1].kind = "error"
    /\ req[1].text = Str(<<"z", "z", "|", "0", "|", "-", "1">>)
    /\ pc[1] = "closed"
    /\ Len(out[1]) = 1
    /\ inb[1] # <<>>

C13_BadGetOnlyErr ==
    \A c \in Conns :
        req[c].t = TYPE_GET =>
            LET parts == Split(req[c].text, Ord["|"])
                full == abspath(join(root, LStrip(parts[1],
                                                  {Ord["\\"], Ord["/"], Ord[" "]})))
                real == Walk(fs, sep, Components(full))
                bad == \/ Len(parts) # 3
                       \/ ~(full = root \/ StartsWith(full, root \o sep))
                       \/ real = <<>>
                       \/ fs[real].kind # "file"
                resp == SubSeq(out[c], req[c].first, Len(out[c]))
            IN  bad =>
                    /\ Len(resp) = 1
                    /\ SentType(resp[1]) = TYPE_ERR
                    /\ pc[c] = "closed"

\* C13 witness: a GET of a directory has been answered.
WitnessC13_GetOfDirectory ==
    /\ req[1].t = TYPE_GET
    /\ req[1].text = Str(<<"d", "|", "0", "|", "-", "1">>)
    /\ Len(out[1]) >= 1

\* C14: a LIST whose path leaves root or names no directory is answered
\* with exactly one LIST_RESP packet with an empty payload, and the
\* connection stays open, waiting for the next request.
C14_BadListEmptyResp ==
    \A c \in Conns :
        req[c].t = TYPE_LIST =>
            LET full == abspath(join(root, LStrip(req[c].text,
                                                  {Ord["\\"], Ord["/"], Ord[" "]})))
                real == Walk(fs, sep, Components(full))
                bad == \/ ~(full = root \/ StartsWith(full, root \o sep))
                       \/ real = <<>>
                       \/ fs[real].kind # "dir"
                resp == SubSeq(out[c], req[c].first, Len(out[c]))
            IN  bad =>
                    /\ resp = <<MAGIC \o <<TYPE_LIST_RESP, 0, 0, 0, 0>>>>
                    /\ pc[c] = "recv"
                    /\ \A i \in 1..Len(out[c]) : SentType(out[c][i]) # TYPE_ERR

\* C14 witness: a LIST of ../s has been answered on a connection that had
\* already answered a request.
WitnessC14_EscapingListAnswered ==
    /\ req[1].t = TYPE_LIST
    /\ req[1].text = Str(<<".", ".", "/", "s">>)
    /\ req[1].first = 2
    /\ Len(out[1]) = 2

\* the download threads that have been created
Born == {w \in Workers : wk[w].pc # "unborn"}

\* the size of the remote file a thread downloads
OwnFileSize(w) == Len(fs[RootR \o sep \o wk[w].remote_path].data)

\* C15: downloads of distinct remote paths, also of paths that share a base
\* name, each have their own task entry, written by no other thread, and
\* every download that ends without a failure ends with downloaded equal
\* to the size of its own file.
C15_OwnEntryEach ==
    \A w \in Born :
        /\ wk[w].filename \in DOMAIN downloads
        /\ downloads[wk[w].filename].remote_path = wk[w].remote_path
        /\ \A v \in Born \ {w} : wk[v].filename # wk[w].filename
        /\ (wk[w].pc = "done" /\ wk[w].failure = "" /\ wk[w].exc = <<>>) =>
               /\ downloads[wk[w].filename].status = "completed"
               /\ downloads[wk[w].filename].size = OwnFileSize(w)
               /\ downloads[wk[w].filename].downloaded = OwnFileSize(w)

\* C16: whatever the peer sends while a download streams, a task whose
\* status is "completed" has downloaded equal to its size.
C16_CompletedMeansAll ==
    \A k \in DOMAIN downloads :
        downloads[k].status = "completed" => downloads[k].downloaded = downloads[k].size

\* C17: a failure of a connect or of a receive in the probe or the
\* streaming phase (ERR packet, timeout, connection closed, bad magic,
\* refused connection) takes the thread to its handler, which sets the
\* status of the task to an error and ends the thread; from the failure
\* on the thread sends no request and opens no connection.
C17_FailureIsTerminal ==
    [][\A w \in Born :
        /\ (wk[w].failure = "" /\ wk'[w].failure # "") => wk'[w].pc = "except"
        /\ wk[w].failure # "" =>
               /\ wk'[w].pc \in {"except", "except_rel", "done"}
               /\ wk'[w].reqs = wk[w].reqs
               /\ wk'[w].nconn = wk[w].nconn
               /\ wk'[w].failure = wk[w].failure
               /\ wk[w].pc = "done" => wk'[w] = wk[w]
               /\ (wk[w].pc = "except" /\ wk'[w].pc # "except") =>
                      /\ downloads'[wk[w].filename].status = "error"
                      /\ downloads'[wk[w].filename].error = wk[w].exc
                      /\ wk[w].exc # <<>>]_vars

\* C17 witness: the peer closed the second connection after a chunk; the
\* thread has ended with the task in error, one byte written.
WitnessC17_ClosedWhileStreaming ==
    /\ wk[1].pc = "done"
    /\ wk[1].failure = "closed"
    /\ wk[1].nconn = 2
    /\ wk[1].pos = 1
    /\ downloads[wk[1].filename].status = "error"

RECURSIVE ChunkBytes(_, _)
\* the number of bytes of the CHUNK packets among the packets received on
\* connection conn, the first packet of that connection left out
ChunkBytes(recvd, conn) ==
    LET on == SelectSeq(recvd, LAMBDA p : p.conn = conn)
        counted == SelectSeq(Tail(on), LAMBDA p : p.t = TYPE_CHUNK)
        RECURSIVE Total(_)
        Total(ps) == IF ps = <<>> THEN 0 ELSE Len(Head(ps).payload) + Total(Tail(ps))
    IN  IF on = <<>> THEN 0 ELSE Total(counted)

\* C18: a thread sends the probe GET of 0..1 on its first connection; it
\* opens the second connection and sends its one GET of 0..size only
\* after the first connection has delivered a META, size being the value
\* of that META; the bytes it writes are those of CHUNK packets that
\* follow the first packet of the second connection.
C18_TwoPhaseHandshake ==
    \A w \in Born :
        /\ Len(wk[w].reqs) <= 2
        /\ wk[w].nconn <= 2
        /\ Len(wk[w].reqs) >= 1 =>
               wk[w].reqs[1] = [conn |-> 1,
                                payload |-> GetPayload(wk[w].remote_path, 0, 1)]
        /\ wk[w].nconn = 2 =>
               /\ wk[w].recvd # <<>>
               /\ wk[w].recvd[1].conn = 1
               /\ wk[w].recvd[1].t = TYPE_META
        /\ Len(wk[w].reqs) = 2 =>
               /\ wk[w].reqs[2].conn = 2
               /\ ParseSize(wk[w].recvd[1].payload).ok
               /\ wk[w].reqs[2].payload =
                      GetPayload(wk[w].remote_path, 0,
                                 ParseSize(wk[w].recvd[1].payload).val)
        /\ wk[w].pc \in {"stream", "progress", "progress_rel", "elapsed", "complete",
                          "complete_rel"} =>
               wk[w].pos = ChunkBytes(wk[w].recvd, 2)

\* C19: no thread reads or writes a field of a task without holding the
\* lock.
C19_LockHeldAtEveryAccess == unlocked = {}

\* C20: the progress routine changes neither the set of tasks nor any
\* field of a task, at the step that reads them and for as long as it is in
\* course, whatever the download threads are doing; what it returns has
\* an entry per task.
C20_SnapshotReadOnly ==
    /\ [](mainpc = "snapshot" => DOMAIN progress = DOMAIN downloads)
    /\ [][(mainpc = "snapshot" \/ mainpc' = "snapshot") => downloads' = downloads]_vars

\* C20 witness: the progress routine is in course while one download has
\* ended and another, with bytes received, waits for the lock.
WitnessC20_SnapshotAmongWorkers ==
    /\ mainpc = "snapshot"
    /\ lock = {0}
    /\ \E k \in DOMAIN progress : progress[k].status = "completed"
    /\ \E w \in Born : wk[w].pc = "progress" /\ wk[w].pos > 0

\* what the server holds of connection c: the bytes not yet read, whether
\* the peer has closed, the packets sent, and the position and locals of
\* its handler
ConnState(c) == <<inb[c], peerClosed[c], out[c], pc[c], cur[c], req[c]>>

\* C21: a step on one connection (a request served, a chunk sent, a
\* failure, a close, bytes arriving) leaves every other connection as it
\* is; and the handler of a connection that is not closed is never held
\* back by another connection, be it failed, closed or blocked in a read.
C21_ConnectionsIndependent ==
    /\ [](\A d \in Conns : pc[d] \in {"recv", "stream"} => runs(d))
    /\ [][\A c, d \in Conns :
            (c # d /\ ConnState(c)' # ConnState(c)) => ConnState(d)' = ConnState(d)]_vars

\* C21 witness: connection 1 has failed and is closed
\* while connection 2 is in the middle of streaming a file.
WitnessC21_OtherStreams ==
    /\ pc[1] = "closed"
    /\ req[1].kind = "error"
    /\ pc[2] = "stream"
    /\ Len(out[2]) >= 2

\* C22: on a connection the handler reads a request only when every packet
\* of the response to the request before has been sent: while the chunks
\* of a GET are being sent nothing is read, the packets sent are never
\* taken back or reordered, the response to a request starts after all the
\* packets sent before it was read, and the response to a LIST is one
\* LIST_RESP packet.
C22_OneRequestAtATime ==
    /\ [](\A c \in Conns :
            /\ pc[c] = "recv" => cur[c] = NoGet
            /\ req[c].t = TYPE_LIST =>
                   /\ Len(out[c]) = req[c].first
                   /\ SentType(out[c][req[c].first]) = TYPE_LIST_RESP)
    /\ [][\A c \in Conns :
            /\ SubSeq(out'[c], 1, Len(out[c])) = out[c]
            /\ pc[c] = "stream" => Len(inb'[c]) >= Len(inb[c])
            /\ Len(inb'[c]) < Len(inb[c]) =>
                   /\ pc[c] = "recv"
                   /\ cur[c] = NoGet
                   /\ req'[c].first = Len(out[c]) + 1]_vars

\* C22 witness: a LIST sent behind a GET of the three bytes of a has been
\* answered after the META and the two chunks of the GET.
WitnessC22_ListAfterChunks ==
    /\ req[1].t = TYPE_LIST
    /\ req[1].first = 4
    /\ Len(out[1]) = 4
    /\ SentType(out[1][1]) = TYPE_META
    /\ SentType(out[1][3]) = TYPE_CHUNK

\* C27: a well-framed packet whose type is neither 0x01 (LIST) nor 0x03
\* (GET) is read and dropped: no packet is sent for it, neither a response
\* nor an ERR, and the handler waits for the next request on the open
\* connection.
C27_OtherTypeIgnored ==
    \A c \in Conns :
        req[c].t \in {2, 4, 5, 6, 7} =>
            /\ Len(out[c]) = req[c].first - 1
            /\ pc[c] = "recv"
            /\ cur[c] = NoGet

\* C27 witness: after an answered request a packet of type 0x04 has been
\* read on the same connection, and nothing has been sent since.
WitnessC27_MetaFromClient ==
    /\ req[1].t = 4
    /\ req[1].first = 2
    /\ Len(out[1]) = 1
    /\ inb[1] = <<>>

\* the positions of a download thread inside a "with lock" block
InBlock == {"set_size_rel", "progress_rel", "complete_rel", "except_rel"}

\* C24: a download thread holds the lock only inside a block that updates
\* fields of its task: while it holds the lock it opens no connection,
\* sends and receives nothing and writes nothing to the local file, and
\* its next step gives the lock back.
C24_NoIoUnderLock ==
    /\ [](\A w \in Workers : w \in lock => wk[w].pc \in InBlock)
    /\ [][\A w \in Workers :
            (w \in lock \/ w \in lock') =>
                /\ wk'[w].nconn = wk[w].nconn
                /\ wk'[w].reqs = wk[w].reqs
                /\ wk'[w].recvd = wk[w].recvd
                /\ wk'[w].file = wk[w].file
                /\ wk'[w].pos = wk[w].pos
                /\ (w \in lock /\ wk'[w] # wk[w]) => w \notin lock']_vars

\* C24 witness: a thread holds the lock to store the count of the bytes of
\* a chunk it has written, while another thread is in its streaming loop.
WitnessC24_LockAfterChunk ==
    /\ lock = {1}
    /\ wk[1].pc = "progress_rel"
    /\ wk[1].pos > 0
    /\ wk[2].pc = "stream"

\* the payloads of the CHUNK packets among the packets received on
\* connection conn, the first packet of that connection left out, one
\* after the other
ChunkData(recvd, conn) ==
    LET on == SelectSeq(recvd, LAMBDA p : p.conn = conn)
        counted == SelectSeq(Tail(on), LAMBDA p : p.t = TYPE_CHUNK)
    IN  IF on = <<>> THEN <<>>
        ELSE Concat([i \in 1..Len(counted) |-> counted[i].payload])

\* C25: the chunks received are in the local file one after the other from
\* offset 0, each at the offset that is the sum of the lengths of those
\* before it; and when a download from this repository's server has ended
\* with its task completed, the local file holds the bytes 0..size of the
\* remote file, size being that of the task, and downloaded of the task is
\* the number of bytes written.
C25_FileEqualsRemote ==
    \A w \in Born :
        /\ wk[w].pc \in {"stream", "progress", "progress_rel", "elapsed", "complete",
                          "complete_rel", "done"} /\ wk[w].exc = <<>> =>
               SubSeq(wk[w].file, 1, wk[w].pos) = ChunkData(wk[w].recvd, 2)
        /\ (wk[w].pc = "done" /\ wk[w].exc = <<>>
                /\ downloads[wk[w].filename].status = "completed") =>
               /\ wk[w].file = SubSeq(fs[RootR \o sep \o wk[w].remote_path].data, 1,
                                      downloads[wk[w].filename].size)
               /\ downloads[wk[w].filename].downloaded = wk[w].pos

\* the steps of a status that C26 allows ("starting" is what the command
\* line client calls a task that is being prepared)
Forward(a, b) ==
    \/ a = b
    \/ a \in {"preparing", "starting"} /\ b \in {"downloading", "error"}
    \/ a = "downloading" /\ b \in {"completed", "error"}

\* C26: the status of a task only moves from preparing to downloading or
\* to an error, and from downloading to completed or to an error; a task
\* that is completed or in error stays as it is, whatever enqueue and the
\* download threads do.
C26_StatusForward ==
    [][\A k \in DOMAIN downloads :
          /\ k \in DOMAIN downloads'
          /\ Forward(downloads[k].status, downloads'[k].status)
          /\ downloads[k].status = "error" => downloads'[k].error = downloads[k].error]_vars

\* the download threads whose remote file exists and is empty, and to which
\* no connect and no receive has failed
OfEmptyFile ==
    {w \in Born : /\ wk[w].remote_path = Str(<<"e">>)
                  /\ fs[RootR \o sep \o wk[w].remote_path].data = <<>>
                  /\ wk[w].failure = ""}

\* C28: the download of an existing remote file of length 0, the probe
\* being answered with META "0", never has an error as its status, and
\* ends completed with downloaded = size = 0, in the GUI client and in the
\* command line client.
C28_EmptyFileCompletes ==
    \A w \in OfEmptyFile :
        /\ downloads[wk[w].filename].status # "error"
        /\ wk[w].pc \notin {"except", "except_rel"}
        /\ wk[w].pc = "done" =>
               /\ downloads[wk[w].filename].status = "completed"
               /\ downloads[wk[w].filename].size = 0
               /\ downloads[wk[w].filename].downloaded = 0

\* C23: every receive returning bytes, a close or a timeout, and the
\* threads being scheduled, a task that has been enqueued eventually has
\* the status completed or error.
C23_EventuallyTerminal ==
    \A k \in {Str(<<"g">>)} :
        (k \in DOMAIN downloads)
            ~> (k \in DOMAIN downloads /\ downloads[k].status \in {"completed", "error"})

=============================================================================
